---- MODULE Spec2Model ----
(***************************************************************************)
(* The scraping fallback pipeline of the SDL import calculator: the four   *)
(* server.js revisions kept in the repository (their scrapeProductData /   *)
(* POST /api/scrape resolution of one URL), the providers they call, the   *)
(* learning store (learningSystem.js) and the shipping estimators.         *)
(*                                                                         *)
(* JavaScript values: objects are records whose DOMAIN is the object's set *)
(* of own keys (a missing key is an undefined property); null/undefined    *)
(* strings are the string "null", null/undefined numbers are nullNum and   *)
(* null dimensions are the empty tuple.  Money is kept in cents.           *)
(***************************************************************************)
EXTENDS Integers, Sequences, FiniteSets, TLC

\* ---------------------------------------------------------------- bounds
\* Resolutions of a URL performed in one behaviour.
MaxOps == 2
\* Evaluations of the shipping estimator on one input.
MaxEvals == 2

\* ------------------------------------------------------------- JS values
null == "null"
nullNum == -1
nullDims == << >>

Truthy(n) == n # nullNum /\ n # 0
\* Number(x) as the arithmetic and relational operators coerce null.
ToNumber(n) == IF n = nullNum THEN 0 ELSE n
Max(a, b) == IF a >= b THEN a ELSE b
Min(a, b) == IF a <= b THEN a ELSE b
\* `dimensions && dimensions.length && dimensions.width && dimensions.height`
HasDims(d) == d # nullDims /\ d[1] # 0 /\ d[2] # 0 /\ d[3] # 0

\* ------------------------------------------------------ server revisions
\* "enhanced"  : unnamed/part_000 lines 1-589     (Apify, ScrapingBee, UPCitemdb)
\* "selectors" : unnamed/part_000 lines 591-1372  (Apify, ScrapingBee selectors)
\* "test"      : backend/server.js lines 1-435    (Apify, Adaptive; TEST_MODE)
\* "bee_ai"    : backend/server.js lines 437-901  (ScrapingBee AI, Apify)
Variants == {"enhanced", "selectors", "test", "bee_ai"}

\* ------------------------------------------------------------ estimators
\* categoryMultipliers[category] || 1.0, in tenths ("enhanced").
CategoryMultiplier(category) ==
  CASE category = "Furniture" -> 25
    [] category = "Electronics" -> 18
    [] category = "Home & Garden" -> 15
    [] category = "Kitchen & Dining" -> 17
    [] category = "Sports & Outdoors" -> 20
    [] category = "Tools & Hardware" -> 16
    [] category = "General Merchandise" -> 10
    [] category = "Clothing & Accessories" -> 8
    [] category = "Beauty & Personal Care" -> 7
    [] category = "Books & Media" -> 9
    [] category = "Toys & Games" -> 12
    [] OTHER -> 10

\* categoryMultipliers[category] || 1.0, in tenths ("bee_ai").
CategoryMultiplierBeeAI(category) ==
  CASE category = "Furniture" -> 25
    [] category = "Electronics" -> 18
    [] category = "Home & Garden" -> 15
    [] category = "General Merchandise" -> 10
    [] OTHER -> 10

\* The cost before rounding as a numerator over 830000 (= lcm of the
\* denominators of 2.5, 0.02*2.5, 1.5/166 and 0.05); `withDims` is whether
\* the revision has the dimensional-weight step.
ShippingNumerator(mult, weight, price, dimensions, withDims) ==
  LET base == 15 * mult * 83000
      byWeight == IF Truthy(weight) /\ weight > 0
                    THEN weight * 25 * 83000
                    ELSE Max(1000, ToNumber(price) * 2 * mult) * 25 * 83
      volume == IF HasDims(dimensions)
                  THEN dimensions[1] * dimensions[2] * dimensions[3] ELSE 0
      byDims == IF withDims /\ HasDims(dimensions)
                     /\ volume > 166 * ToNumber(weight)
                  THEN (volume - 166 * ToNumber(weight)) * 7500
                  ELSE 0
      byPrice == IF ToNumber(price) > 100
                   THEN Min(ToNumber(price) * 5, 5000) * 8300
                   ELSE 0
  IN  base + byWeight + byDims + byPrice

\* Math.round(baseCost * 100) / 100, as cents.
RoundToCents(numerator) == (numerator + 4150) \div 8300

calculateShippingCost(category, weight, price, dimensions) ==
  RoundToCents(ShippingNumerator(CategoryMultiplier(category),
                                 weight, price, dimensions, TRUE))

calculateShippingCostBeeAI(category, weight, price, dimensions) ==
  RoundToCents(ShippingNumerator(CategoryMultiplierBeeAI(category),
                                 weight, price, dimensions, FALSE))

\* categoryMultipliers[category] || 1.0, in tenths ("selectors").
CategoryMultiplierSelectors(category) ==
  CASE category = "Electronics" -> 12
    [] category = "Furniture" -> 25
    [] category = "Home & Garden" -> 18
    [] category = "Sports & Outdoors" -> 15
    [] category = "Automotive" -> 20
    [] category = "Books" -> 8
    [] category = "Clothing" -> 9
    [] category = "Beauty & Personal Care" -> 7
    [] category = "Toys" -> 11
    [] category = "General Merchandise" -> 10
    [] OTHER -> 10

\* The configured range of "selectors": Math.max(8, Math.min(baseCost, 200)).
MinShipping == 8
MaxShipping == 200

\* estimateShippingCost(category, price, weight, dimensions) of "selectors":
\* the factors are tenths, the product a numerator over 10000; the result
\* is whole dollars, returned here as cents.
estimateShippingCostSelectors(category, price, weight, dimensions) ==
  LET priceF == IF ~Truthy(price) THEN 10
                ELSE IF price > 500 THEN 15
                ELSE IF price > 200 THEN 13
                ELSE IF price > 100 THEN 11
                ELSE IF price < 25 THEN 8 ELSE 10
      weightF == IF ~Truthy(weight) THEN 10
                 ELSE IF weight > 50 THEN 20
                 ELSE IF weight > 20 THEN 15
                 ELSE IF weight > 10 THEN 12
                 ELSE IF weight < 1 THEN 7 ELSE 10
      volume == IF HasDims(dimensions)
                  THEN dimensions[1] * dimensions[2] * dimensions[3] ELSE 0
      volumeF == IF ~HasDims(dimensions) THEN 10
                 ELSE IF volume > 10000 THEN 25
                 ELSE IF volume > 5000 THEN 18
                 ELSE IF volume > 1000 THEN 13
                 ELSE IF volume < 100 THEN 8 ELSE 10
      raw == 15 * CategoryMultiplierSelectors(category) * priceF * weightF * volumeF
      clamped == Max(MinShipping * 10000, Min(raw, MaxShipping * 10000))
  IN  ((clamped + 5000) \div 10000) * 100

\* categoryRates[category] || 20 ("test").
CategoryRate(category) ==
  CASE category = "Furniture" -> 45
    [] category = "Electronics" -> 25
    [] category = "Home & Garden" -> 20
    [] category = "Clothing" -> 15
    [] category = "Books" -> 12
    [] category = "Toys & Games" -> 18
    [] category = "Sports & Outdoors" -> 30
    [] category = "General" -> 20
    [] OTHER -> 20

\* Math.floor(Math.random() * 10) - 5
RandomNoise == -5 .. 4

\* baseCost of estimateShippingCost of "test" before the random term.
BaseCostTest(category, dimensions, weight) ==
  LET volume == IF dimensions = nullDims THEN 0
                ELSE (IF dimensions[1] = 0 THEN 12 ELSE dimensions[1])
                   * (IF dimensions[2] = 0 THEN 12 ELSE dimensions[2])
                   * (IF dimensions[3] = 0 THEN 12 ELSE dimensions[3])
      \* cubicFeet = volume / 1728; cubicFeet > 5 iff volume > 8640
      byDims == (IF dimensions # nullDims /\ volume > 8640
                   THEN ((volume - 8640) \div 1728) * 8 ELSE 0)
              + (IF dimensions # nullDims /\ volume > 25920
                   THEN ((volume - 25920) \div 1728) * 5 ELSE 0)
      byWeight == (IF Truthy(weight) /\ weight > 10 THEN (weight - 10) * 2 ELSE 0)
                + (IF Truthy(weight) /\ weight > 50 THEN (weight - 50) ELSE 0)
  IN  CategoryRate(category) + byDims + byWeight

\* A variant of the estimator below that adds the random term in every mode.
estimateShippingCostNoisy(category, dimensions, weight, mode, noise) ==
  Max(10, BaseCostTest(category, dimensions, weight) + noise) * 100

\* estimateShippingCost(category, dimensions, weight) of "test"; `noise` is
\* the value of Math.floor(Math.random() * 10) - 5 for this call, added
\* only when TEST_MODE is set.  Whole dollars, returned here as cents.
estimateShippingCostTest(category, dimensions, weight, mode, noise) ==
  Max(10, BaseCostTest(category, dimensions, weight)
            + (IF mode THEN noise ELSE 0)) * 100

\* ------------------------------------------------------------------ URLs
\* The product pages requested in the model.
AmazonChairUrl == "https://www.amazon.com/oak-chair/dp/B01"
LowesUrl == "https://www.lowes.com/pd/1000"
URLs == {AmazonChairUrl, LowesUrl}

\* The known retailer domains that `new URL(url).hostname.toLowerCase()`
\* includes (empty when new URL(url) throws).
HostDomains(url) ==
  CASE url = AmazonChairUrl -> {"amazon.com"}
    [] url = LowesUrl -> {"lowes.com"}
    [] OTHER -> {}

\* The `if (domain.includes(d)) return label` chains, in source order.
RetailerRules(v) ==
  LET six == << <<"amazon.com", "Amazon">>, <<"wayfair.com", "Wayfair">>,
                <<"target.com", "Target">>, <<"bestbuy.com", "Best Buy">>,
                <<"walmart.com", "Walmart">>, <<"homedepot.com", "Home Depot">> >>
      ten == six \o << <<"lowes.com", "Lowes">>, <<"costco.com", "Costco">>,
                       <<"macys.com", "Macys">>, <<"ikea.com", "IKEA">> >>
      fifteen == ten \o << <<"overstock.com", "Overstock">>, <<"cb2.com", "CB2">>,
                           <<"crateandbarrel.com", "Crate & Barrel">>,
                           <<"westelm.com", "West Elm">>,
                           <<"potterybarn.com", "Pottery Barn">> >>
  IN  CASE v = "bee_ai" -> six
        [] v = "test" -> ten
        [] OTHER -> fifteen

RECURSIVE FirstRetailer(_, _)
FirstRetailer(rules, domains) ==
  IF rules = << >> THEN "Unknown Retailer"
  ELSE IF Head(rules)[1] \in domains THEN Head(rules)[2]
  ELSE FirstRetailer(Tail(rules), domains)

detectRetailer(v, url) == FirstRetailer(RetailerRules(v), HostDomains(url))

\* ------------------------------------------------------------------ text
\* Product titles the providers extract in the model.
ApifyTitle == "Oak Dining Chair"
BeeTitle == "Bedside Lamp"
UpcTitle == "Garden Hose"
\* Further names the classifier is evaluated on.
GamingChairTitle == "Gaming Chair"
BoardGameTitle == "Kids Board Game"

\* The lowercase words of a string, as the regular expressions' \b sees them
\* (and the two-word phrases among the keywords that it contains).
WordsOf(text) ==
  CASE text = ApifyTitle -> {"oak", "dining", "chair"}
    [] text = GamingChairTitle -> {"gaming", "chair"}
    [] text = BoardGameTitle -> {"kids", "board", "game", "board game"}
    [] text = BeeTitle -> {"bedside", "lamp"}
    [] text = UpcTitle -> {"garden", "hose"}
    [] text = "Unknown Product" -> {"unknown", "product"}
    [] text = "Product Name Not Found" -> {"product", "name", "not", "found"}
    [] text = "Product from Amazon" -> {"product", "from", "amazon"}
    [] text = "Product from Lowes" -> {"product", "from", "lowes"}
    [] text = "Product from Generic" -> {"product", "from", "generic"}
    [] text = "Product from Unknown Retailer" -> {"product", "from", "unknown", "retailer"}
    [] text = AmazonChairUrl -> {"https", "www", "amazon", "com", "oak", "chair", "dp", "b01"}
    [] text = LowesUrl -> {"https", "www", "lowes", "com", "pd", "1000"}
    [] text = null -> {"undefined"}
    [] OTHER -> {}

\* The keywords of the String.includes() chains that occur in the lowercase
\* string as substrings ("bedside" includes "bed").
SubstringsOf(text) ==
  CASE text = ApifyTitle -> {"chair"}
    [] text = BeeTitle -> {"bed", "lamp"}
    [] text = UpcTitle -> {"garden"}
    [] text = GamingChairTitle -> {"chair"}
    [] text = BoardGameTitle -> {"game", "kids"}
    [] text = AmazonChairUrl -> {"chair"}
    [] OTHER -> {}

\* A variant of the chain below in which the last matching rule wins.
LastCategory(rules, hits, default) ==
  LET matching == {i \in 1 .. Len(rules) : rules[i][2] \cap hits # {}}
  IN  IF matching = {} THEN default
      ELSE rules[CHOOSE i \in matching : \A j \in matching : j <= i][1]

RECURSIVE FirstCategory(_, _, _)
\* The first rule <<category, keywords>> with a keyword among `hits`.
FirstCategory(rules, hits, default) ==
  IF rules = << >> THEN default
  ELSE IF Head(rules)[2] \cap hits # {} THEN Head(rules)[1]
  ELSE FirstCategory(Tail(rules), hits, default)

\* categorizeProduct(name, url) of "enhanced": text = name + ' ' + url.
CategoryRules ==
  << <<"Furniture", {"chair", "sofa", "couch", "table", "desk", "bed", "mattress",
                     "dresser", "cabinet", "bookshelf", "nightstand", "ottoman",
                     "bench", "stool"}>>,
     <<"Home & Garden", {"lamp", "light", "lighting", "curtain", "rug", "carpet",
                         "pillow", "cushion", "blanket", "throw", "vase", "plant",
                         "garden", "outdoor"}>>,
     <<"Electronics", {"tv", "television", "computer", "laptop", "phone", "tablet",
                       "speaker", "headphone", "camera", "gaming", "xbox",
                       "playstation", "nintendo"}>>,
     <<"Kitchen & Dining", {"kitchen", "dining", "cookware", "appliance", "blender",
                            "mixer", "coffee", "microwave", "refrigerator",
                            "dishwasher"}>>,
     <<"Clothing & Accessories", {"shirt", "pants", "dress", "shoes", "jacket", "coat",
                                  "hat", "bag", "watch", "jewelry", "clothing",
                                  "apparel"}>>,
     <<"Sports & Outdoors", {"sport", "fitness", "exercise", "bike", "bicycle",
                             "camping", "hiking", "fishing", "golf", "tennis",
                             "basketball"}>>,
     <<"Tools & Hardware", {"tool", "drill", "hammer", "saw", "wrench", "hardware",
                            "construction", "repair", "maintenance"}>>,
     <<"Beauty & Personal Care", {"beauty", "cosmetic", "skincare", "shampoo", "soap",
                                  "perfume", "makeup", "personal care"}>>,
     <<"Books & Media", {"book", "dvd", "cd", "music", "movie", "game", "media",
                         "magazine"}>>,
     <<"Toys & Games", {"toy", "game", "puzzle", "doll", "action figure", "lego",
                        "board game", "kids", "children"}>>
  >>

categorizeProduct(name, url) ==
  FirstCategory(CategoryRules, WordsOf(name) \cup WordsOf(url), "General Merchandise")

\* categorizeProduct(name, url) of "bee_ai".
CategoryRulesBeeAI ==
  << <<"Furniture", {"chair", "sofa", "couch", "table", "desk", "bed", "mattress",
                     "dresser", "cabinet"}>>,
     <<"Home & Garden", {"lamp", "light", "lighting", "curtain", "rug", "carpet",
                         "pillow", "cushion"}>>,
     <<"Electronics", {"tv", "television", "computer", "laptop", "phone", "tablet",
                       "speaker", "headphone"}>>
  >>

categorizeProductBeeAI(name, url) ==
  FirstCategory(CategoryRulesBeeAI, WordsOf(name) \cup WordsOf(url),
                "General Merchandise")

\* determineCategory(productName, retailer) of "selectors".
DetermineRules ==
  << <<"Electronics", {"laptop", "computer", "phone", "tablet", "tv", "monitor",
                       "camera", "headphone", "speaker"}>>,
     <<"Furniture", {"chair", "table", "desk", "sofa", "bed", "dresser", "cabinet",
                     "shelf", "couch"}>>,
     <<"Home & Garden", {"kitchen", "bathroom", "garden", "outdoor", "patio", "decor",
                         "lamp", "rug", "curtain"}>>,
     <<"Clothing", {"shirt", "pants", "dress", "shoes", "jacket", "clothing"}>>,
     <<"Sports & Outdoors", {"bike", "exercise", "fitness", "sport", "outdoor",
                             "camping"}>>,
     <<"Toys", {"toy", "game", "puzzle", "doll", "lego", "kids"}>>,
     <<"Books", {"book", "novel", "textbook"}>>,
     <<"Beauty & Personal Care", {"makeup", "skincare", "shampoo", "perfume", "beauty",
                                  "cosmetic"}>>,
     <<"Automotive", {"car", "auto", "tire", "motor", "vehicle"}>>
  >>

determineCategory(productName, retailer) ==
  IF productName = null THEN "General Merchandise"
  ELSE FirstCategory(DetermineRules, SubstringsOf(productName), "General Merchandise")

\* guessCategory(url) of "test".
GuessRules ==
  << <<"Furniture", {"furniture", "chair", "table"}>>,
     <<"Electronics", {"electronic", "tv", "computer"}>>,
     <<"Clothing", {"clothing", "shirt", "dress"}>>,
     <<"Home & Garden", {"home", "kitchen", "decor"}>>,
     <<"Toys & Games", {"toy", "game"}>>,
     <<"Books", {"book"}>>,
     <<"Sports & Outdoors", {"sport", "fitness"}>>
  >>

guessCategory(url) == FirstCategory(GuessRules, SubstringsOf(url), "General")

\* ------------------------------------------------------------- providers
Providers == {"apify", "scrapingbee", "upcitemdb"}

\* What one provider call meets: the call throws, times out (a rejected
\* request all the same), gets no document at all, or gets a page/item without
\* a title ("empty"), with a title only ("partial") or with every field.
Kinds == {"throw", "timeout", "none", "empty", "partial", "full"}
Rejects(kind) == kind \in {"throw", "timeout"}

\* The object `null`.
JsNull == [isNull |-> TRUE]
IsNull(obj) == "isNull" \in DOMAIN obj
\* obj.key, an undefined property read as the given null.
Get(obj, key, undef) == IF key \in DOMAIN obj THEN obj[key] ELSE undef

PlaceholderImport == "https://placehold.co/300x300/7CB342/FFFFFF/png?text=SDL+Import"
Placeholder == "https://placehold.co/300x300/7CB342/FFFFFF/png?text=SDL"

\* The fields a provider finds on the page (prices already parsed to a
\* number; the selector tables and the price regular expression are the
\* extraction detail below this model).
Raw(p, kind) ==
  LET title == CASE p = "apify" -> ApifyTitle
                 [] p = "scrapingbee" -> BeeTitle
                 [] OTHER -> UpcTitle
      blank == [title |-> null, price |-> nullNum, image |-> null,
                dimensions |-> nullDims, weight |-> nullNum]
  IN  CASE kind = "partial" -> [blank EXCEPT !.title = title]
        [] kind = "full" ->
             (CASE p = "apify" ->
                     [blank EXCEPT !.title = title, !.price = 120,
                                   !.image = "https://img.example/apify.jpg"]
                [] p = "scrapingbee" ->
                     [blank EXCEPT !.title = title, !.price = 30,
                                   !.image = "https://img.example/bee.jpg",
                                   !.dimensions = <<20, 20, 30>>, !.weight = 12]
                [] OTHER ->
                     [blank EXCEPT !.title = title,
                                   !.image = "https://img.example/upc.jpg",
                                   !.dimensions = <<24, 12, 12>>, !.weight = 8])
        [] OTHER -> blank

\* ApifyScraper.parseData
ApifyParseData(data) ==
  [name |-> IF data.title = null THEN "Unknown Product" ELSE data.title,
   price |-> data.price, image |-> data.image, dimensions |-> nullDims,
   weight |-> nullNum, category |-> null]

\* ApifyScraper.scrapeProduct: [threw, data]
ApifyScrapeProduct(kind) ==
  IF Rejects(kind) \/ kind = "none"     \* 'No data found'
    THEN [threw |-> TRUE, data |-> JsNull]
    ELSE [threw |-> FALSE, data |-> ApifyParseData(Raw("apify", kind))]

\* A variant of the block below without its `if (name)`.
ScrapingBeeInlineUnchecked(kind) ==
  IF Rejects(kind) THEN [threw |-> TRUE, data |-> JsNull]
  ELSE IF kind = "none" THEN [threw |-> FALSE, data |-> JsNull]
  ELSE [threw |-> FALSE,
        data |-> [name |-> Raw("scrapingbee", kind).title,
                  price |-> Raw("scrapingbee", kind).price,
                  image |-> Raw("scrapingbee", kind).image,
                  dimensions |-> nullDims, weight |-> nullNum, category |-> null]]

\* The inline ScrapingBee block of "enhanced": productData is assigned only
\* `if (name)`.
ScrapingBeeInline(kind) ==
  LET raw == Raw("scrapingbee", kind)
  IN  IF Rejects(kind) THEN [threw |-> TRUE, data |-> JsNull]
      ELSE IF kind = "none" \/ raw.title = null THEN [threw |-> FALSE, data |-> JsNull]
      ELSE [threw |-> FALSE,
            data |-> [name |-> raw.title, price |-> raw.price, image |-> raw.image,
                      dimensions |-> nullDims, weight |-> nullNum, category |-> null]]

\* extractWithSelectors of "selectors", with its fallback name and image
\* (the page's <title> is empty on a page without a product title).
extractWithSelectors(raw, retailerName) ==
  [name |-> IF raw.title = null THEN "Product from " \o retailerName ELSE raw.title,
   price |-> raw.price,
   image |-> IF raw.image = null THEN Placeholder ELSE raw.image,
   dimensions |-> nullDims, weight |-> nullNum, category |-> null]

\* scrapeWithScrapingBee of "selectors": the retailer switch passes the
\* retailer's name for the six retailers it knows, 'Generic' otherwise.
scrapeWithScrapingBee(url, kind) ==
  LET retailer == detectRetailer("selectors", url)
      retailerName == IF retailer \in {"Amazon", "Walmart", "Wayfair", "Target",
                                       "Best Buy", "Home Depot"}
                        THEN retailer ELSE "Generic"
  IN  IF Rejects(kind) THEN [threw |-> TRUE, data |-> JsNull]
      ELSE [threw |-> FALSE,
            data |-> extractWithSelectors(Raw("scrapingbee", kind), retailerName)]

\* AdaptiveScraper.scrapeProduct of "test" (parseAmazon ... parseGeneric).
AdaptiveScrapeProduct(url, kind) ==
  LET raw == Raw("scrapingbee", kind)
  IN  IF Rejects(kind) THEN [threw |-> TRUE, data |-> JsNull]
      ELSE [threw |-> FALSE,
            data |-> [url |-> url, retailer |-> detectRetailer("test", url),
                      name |-> raw.title, price |-> raw.price, image |-> raw.image,
                      dimensions |-> raw.dimensions, weight |-> raw.weight,
                      category |-> null]]

\* scrapeWithScrapingBeeAI of "bee_ai": catches everything and returns null.
scrapeWithScrapingBeeAI(kind) ==
  LET raw == Raw("scrapingbee", kind)
  IN  IF Rejects(kind) \/ kind = "none" THEN JsNull
      ELSE [name |-> IF raw.title = null THEN "Product Name Not Found" ELSE raw.title,
            price |-> raw.price, image |-> raw.image,
            scrapingMethod |-> "scrapingbee_ai",
            confidence |-> IF Truthy(raw.price) THEN 90 ELSE 60]

\* UPCItemDB.searchByName: catches everything and returns null; an item is
\* returned with whatever title it has.
searchByName(kind) ==
  LET raw == Raw("upcitemdb", kind)
  IN  IF Rejects(kind) \/ kind = "none" THEN JsNull
      ELSE [name |-> raw.title, dimensions |-> raw.dimensions,
            weight |-> raw.weight, image |-> raw.image, category |-> null]

\* ----------------------------------------------------------------- state
VARIABLES
  variant,            \* which server.js revision runs
  testMode,           \* TEST_MODE (the "selectors" revision has none)
  env,                \* which provider credentials the environment configures
  memProducts,        \* learningSystem.memoryStorage.products (a Map by url)
  dbProducts,         \* the products table of the Turso database (url UNIQUE)
  scrapingResults,    \* learningSystem.memoryStorage.scrapingResults
  dbScrapingResults,  \* the scraping_results table
  insights,           \* memoryStorage.insights (totalProducts, totalScrapes)
  req,                \* the resolution in flight and what the world answers it
  last,               \* the last resolveProduct call: its inputs and outcome
  ops,                \* resolutions performed
  est,                \* the shipping estimator's evaluations of one input
  cls,                \* the category classifier's evaluation of one input
  turso,              \* the products table of TursoDatabase
  batch,              \* the POST /api/scrape request being served
  hist,               \* the saveProduct calls made on the stores, in order
  smart               \* the smart estimation asked of the stores

vars == <<variant, testMode, env, memProducts, dbProducts, scrapingResults,
          dbScrapingResults, insights, req, last, ops, est, cls, turso, batch,
          hist, smart>>
config == <<variant, testMode, env>>
store == <<memProducts, dbProducts, scrapingResults, dbScrapingResults, insights>>
\* What the resolution of single URLs leaves alone.
aside == <<est, cls, turso, batch, hist, smart>>

\* The empty Map.
EmptyMap == [u \in {} |-> JsNull]
MapSet(map, key, value) ==
  [u \in DOMAIN map \cup {key} |-> IF u = key THEN value ELSE map[u]]

\* scrapingResults.slice(-1000)
ScrapeLogCap == 1000

\* The one confidence test a store of the repository makes before serving a
\* record: `confidence > 0.7` (TursoDatabase.getKnownProduct), in hundredths.
ConfidenceThreshold == 70
LastN(seq, n) == IF Len(seq) > n THEN SubSeq(seq, Len(seq) - n + 1, Len(seq)) ELSE seq

\* A credential test that also consults the log: a provider already tried
\* for some URL is passed over.
IsAvailableLearned(v, p) ==
  /\ IF v = "bee_ai" /\ p = "scrapingbee" THEN TRUE ELSE env[p]
  /\ \A i \in 1 .. Len(scrapingResults) : scrapingResults[i].method # p

\* isAvailable() / the credential test each revision makes before a call.
\* "bee_ai" reads SCRAPINGBEE_API_KEY || '<hard-coded key>', always truthy.
IsAvailable(v, p) ==
  IF v = "bee_ai" /\ p = "scrapingbee" THEN TRUE ELSE env[p]

\* The providers a revision knows, in the order it tries them.
ProviderOrder(v) ==
  CASE v = "enhanced" -> <<"apify", "scrapingbee", "upcitemdb">>
    [] v = "bee_ai" -> <<"scrapingbee", "apify">>
    [] OTHER -> <<"apify", "scrapingbee">>

\* ------------------------------------------------------- learning system
\* Confidence is kept in hundredths (0.8 is 80).
\* A variant of the lookup below that reads the table whatever its state.
getKnownProductAnyway(url, dbOk) ==
  IF url \in DOMAIN dbProducts
    THEN LET row == dbProducts[url]
         IN  [name |-> row.name, price |-> row.price, retailer |-> row.retailer,
              category |-> row.category, weight |-> row.weight,
              dimensions |-> row.dimensions, image |-> row.image,
              confidence |-> row.confidence]
    ELSE IF url \in DOMAIN memProducts THEN memProducts[url] ELSE JsNull

\* LearningSystem.getKnownProduct; dbOk: this.db is set and the query succeeds.
getKnownProduct(url, dbOk) ==
  IF dbOk /\ url \in DOMAIN dbProducts
    THEN LET row == dbProducts[url]
         IN  [name |-> row.name, price |-> row.price, retailer |-> row.retailer,
              category |-> row.category, weight |-> row.weight,
              dimensions |-> row.dimensions, image |-> row.image,
              confidence |-> row.confidence]
    ELSE IF url \in DOMAIN memProducts THEN memProducts[url] ELSE JsNull

\* A variant of saveProduct that starts the Map afresh at every write to it.
saveProductAfresh(st, productData, dbOk) ==
  LET url == Get(productData, "url", null)
      confirmed == Get(productData, "confirmed", FALSE)
      fields == [name |-> Get(productData, "name", null),
                 retailer |-> Get(productData, "retailer", null),
                 category |-> Get(productData, "category", null),
                 price |-> Get(productData, "price", nullNum),
                 weight |-> Get(productData, "weight", nullNum),
                 dimensions |-> Get(productData, "dimensions", nullDims),
                 image |-> Get(productData, "image", null)]
      method == Get(productData, "scrapingMethod", null)
  IN  IF dbOk /\ url # null
        THEN [st EXCEPT !.db = MapSet(st.db, url,
                [name |-> fields.name, retailer |-> fields.retailer,
                 category |-> fields.category, price |-> fields.price,
                 weight |-> fields.weight, dimensions |-> fields.dimensions,
                 image |-> fields.image, scraping_method |-> method,
                 confirmed |-> confirmed, confidence |-> 80])]
        ELSE LET mem == MapSet(EmptyMap, url,
                [name |-> fields.name, retailer |-> fields.retailer,
                 category |-> fields.category, price |-> fields.price,
                 weight |-> fields.weight, dimensions |-> fields.dimensions,
                 image |-> fields.image, scrapingMethod |-> method,
                 confidence |-> IF confirmed THEN 100 ELSE 80])
             IN  [st EXCEPT !.mem = mem,
                            !.insights.totalProducts = Cardinality(DOMAIN mem)]

\* LearningSystem.saveProduct: the store after the call, given the store
\* before it; dbOk: this.db is set and INSERT OR REPLACE succeeds (it cannot
\* with an undefined url: `url TEXT UNIQUE NOT NULL`).
saveProduct(st, productData, dbOk) ==
  LET url == Get(productData, "url", null)
      confirmed == Get(productData, "confirmed", FALSE)
      fields == [name |-> Get(productData, "name", null),
                 retailer |-> Get(productData, "retailer", null),
                 category |-> Get(productData, "category", null),
                 price |-> Get(productData, "price", nullNum),
                 weight |-> Get(productData, "weight", nullNum),
                 dimensions |-> Get(productData, "dimensions", nullDims),
                 image |-> Get(productData, "image", null)]
      method == Get(productData, "scrapingMethod", null)
  IN  IF dbOk /\ url # null
        THEN [st EXCEPT !.db = MapSet(st.db, url,
                [name |-> fields.name, retailer |-> fields.retailer,
                 category |-> fields.category, price |-> fields.price,
                 weight |-> fields.weight, dimensions |-> fields.dimensions,
                 image |-> fields.image, scraping_method |-> method,
                 confirmed |-> confirmed, confidence |-> 80])]
        ELSE LET mem == MapSet(st.mem, url,
                [name |-> fields.name, retailer |-> fields.retailer,
                 category |-> fields.category, price |-> fields.price,
                 weight |-> fields.weight, dimensions |-> fields.dimensions,
                 image |-> fields.image, scrapingMethod |-> method,
                 confidence |-> IF confirmed THEN 100 ELSE 80])
             IN  [st EXCEPT !.mem = mem,
                            !.insights.totalProducts = Cardinality(DOMAIN mem)]

\* A variant of recordScrapingResult that trims the log to its oldest entries.
recordScrapingResultOldest(st, url, retailer, result, method, dbOk) ==
  LET success == ~IsNull(result) /\ Get(result, "name", null) # null
      priceFound == ~IsNull(result) /\ Truthy(Get(result, "price", nullNum))
      entry == [url |-> url, retailer |-> retailer, method |-> method,
                success |-> success, priceFound |-> priceFound]
      log == SubSeq(Append(st.log, entry), 1, Min(Len(st.log) + 1, ScrapeLogCap))
  IN  [st EXCEPT !.dblog = IF dbOk THEN Append(st.dblog, entry) ELSE st.dblog,
                 !.log = log,
                 !.insights.totalScrapes = Len(log)]

\* LearningSystem.recordScrapingResult followed by updateInsights.
recordScrapingResult(st, url, retailer, result, method, dbOk) ==
  LET success == ~IsNull(result) /\ Get(result, "name", null) # null
      priceFound == ~IsNull(result) /\ Truthy(Get(result, "price", nullNum))
      entry == [url |-> url, retailer |-> retailer, method |-> method,
                success |-> success, priceFound |-> priceFound]
      log == LastN(Append(st.log, entry), ScrapeLogCap)
  IN  [st EXCEPT !.dblog = IF dbOk THEN Append(st.dblog, entry) ELSE st.dblog,
                 !.log = log,
                 !.insights.totalScrapes = Len(log)]

\* LearningSystem.getSmartEstimation: always null.
getSmartEstimation(category, productName, retailer) == JsNull

\* The store as one value, and back.
StoreNow == [mem |-> memProducts, db |-> dbProducts, log |-> scrapingResults,
             dblog |-> dbScrapingResults, insights |-> insights]

\* ---------------------------------------------------------- orchestrator
\* { ...base, ...overrides }
Spread(base, overrides) ==
  [k \in DOMAIN base \cup DOMAIN overrides |->
     IF k \in DOMAIN overrides THEN overrides[k] ELSE base[k]]

\* What one run of a revision's scrapeProductData does, as a value:
\*   status  "fulfilled" or "rejected" (the promise the caller awaits)
\*   value   the Product returned (when fulfilled)
\*   calls   the providers whose scrape operation was invoked, in order
\*   saves   the arguments of the saveProduct calls made, in order
\*   records the arguments of the recordScrapingResult calls made, in order
\*   cached  whether the Product was taken from the learning store
\*   touched whether the Product is the very object the store's Map holds,
\*           updated in place
\* The fields inStock and brand are carried through without any decision
\* reading them, and are left out of the Products.
Outcome(status, value, calls, saves, records, cached, touched) ==
  [status |-> status, value |-> value, calls |-> calls, saves |-> saves,
   records |-> records, cached |-> cached, touched |-> touched]

\* const estimatedPrice = productData.price || 50
DefaultPrice == 50

\* `productData && productData.name`
HasName(productData) == ~IsNull(productData) /\ Get(productData, "name", null) # null

\* Variants of the guard below that invoke a provider although an earlier one
\* has delivered, and although it is unavailable.
InvokedAfterSuccess(productData, available) == available
InvokedUnavailable(productData, available) == IsNull(productData)

\* The guard of a provider's block: `if (!productData && <provider available>)`;
\* the first block of a revision has no productData yet.
Invoked(productData, available) == IsNull(productData) /\ available

\* `let productData = null; let scrapingMethod = ...`; `calls` lists the
\* providers invoked so far.
Start(method) == [data |-> JsNull, method |-> method, calls |-> << >>]

\* One provider block: the provider is invoked under the guard, and
\* productData and scrapingMethod are assigned when the call returns.
\* `r` is [threw, data], what the call does.
Try(s, available, provider, method, r) ==
  IF Invoked(s.data, available)
    THEN [data |-> IF r.threw THEN s.data ELSE r.data,
          method |-> IF r.threw THEN s.method ELSE method,
          calls |-> Append(s.calls, provider)]
    ELSE s

\* The inline ScrapingBee block and the UPCitemdb block of "enhanced" assign
\* only when they have got something.
TryIfAny(s, available, provider, method, data) ==
  IF Invoked(s.data, available)
    THEN [data |-> IF IsNull(data) THEN s.data ELSE data,
          method |-> IF IsNull(data) THEN s.method ELSE method,
          calls |-> Append(s.calls, provider)]
    ELSE s

\* `if (!productData) { productData = {...}; scrapingMethod = 'fallback' }`
OrFallback(s, fallback) ==
  IF IsNull(s.data) THEN [s EXCEPT !.data = fallback, !.method = "fallback"] ELSE s

\* The productData "enhanced" builds from a UPCitemdb item.
FromUpc(upcData) ==
  IF IsNull(upcData) THEN JsNull
  ELSE [name |-> upcData.name, price |-> nullNum, image |-> upcData.image,
        dimensions |-> upcData.dimensions, weight |-> upcData.weight,
        category |-> null]

\* The cache branch of "enhanced" (unnamed/part_000:200-216).
CacheHitEnhanced(url, retailer, known) ==
  Outcome("fulfilled",
    [url |-> url, name |-> known.name, price |-> known.price,
     image |-> known.image, retailer |-> retailer, category |-> known.category,
     weight |-> known.weight, dimensions |-> known.dimensions,
     shippingCost |-> calculateShippingCost(known.category, known.weight,
                                            known.price, known.dimensions),
     scrapingMethod |-> "ai_cache"],
    << >>, << >>, << >>, TRUE, FALSE)

\* The argument of saveProduct in "enhanced" and "bee_ai".
Saved(result) ==
  [url |-> result.url, name |-> result.name, retailer |-> result.retailer,
   category |-> result.category, price |-> result.price, weight |-> result.weight,
   dimensions |-> result.dimensions, image |-> result.image,
   scrapingMethod |-> result.scrapingMethod]

Recorded(result) ==
  [url |-> result.url, retailer |-> result.retailer, result |-> result,
   method |-> result.scrapingMethod]

\* `result` of "enhanced" (unnamed/part_000:386-407).
ResultEnhanced(url, retailer, data, method, category, ai) ==
  LET fill == ~IsNull(ai) /\ data.dimensions = nullDims
      dimensions == IF fill THEN ai.dimensions ELSE data.dimensions
      weight == IF fill THEN ai.weight ELSE data.weight
  IN  [url |-> url, name |-> data.name, price |-> data.price, image |-> data.image,
       retailer |-> retailer, category |-> category, weight |-> weight,
       dimensions |-> dimensions,
       shippingCost |-> calculateShippingCost(category, weight,
                          IF Truthy(data.price) THEN data.price ELSE DefaultPrice,
                          dimensions),
       scrapingMethod |-> method]

\* Saving, recording, and the final log line, which reads
\* result.name.substring(0, 50) (unnamed/part_000:409-430).
FinishEnhanced(result, calls) ==
  Outcome(IF result.name = null THEN "rejected" ELSE "fulfilled",
          result, calls, <<Saved(result)>>, <<Recorded(result)>>, FALSE, FALSE)

EnhanceEnhanced(url, retailer, s, category) ==
  FinishEnhanced(
    ResultEnhanced(url, retailer, s.data, s.method, category,
                   getSmartEstimation(category, s.data.name, retailer)),
    s.calls)

\* `productData.category || categorizeProduct(productData.name, url)`
CategoryEnhanced(data, url) ==
  IF data.category # null THEN data.category ELSE categorizeProduct(data.name, url)

AfterProvidersEnhanced(url, retailer, s) ==
  EnhanceEnhanced(url, retailer, s, CategoryEnhanced(s.data, url))

\* scrapeProductData of "enhanced" (unnamed/part_000:194-430).
ScrapeEnhanced(url, kind, known) ==
  IF ~IsNull(known)
    THEN CacheHitEnhanced(url, detectRetailer("enhanced", url), known)
    ELSE AfterProvidersEnhanced(url, detectRetailer("enhanced", url),
           OrFallback(
             TryIfAny(
               TryIfAny(
                 Try(Start("unknown"), IsAvailable("enhanced", "apify"),
                     "apify", "apify", ApifyScrapeProduct(kind["apify"])),
                 IsAvailable("enhanced", "scrapingbee"), "scrapingbee",
                 "scrapingbee", ScrapingBeeInline(kind["scrapingbee"]).data),
               IsAvailable("enhanced", "upcitemdb"), "upcitemdb", "upcitemdb",
               FromUpc(searchByName(kind["upcitemdb"]))),
             [name |-> "Product from " \o detectRetailer("enhanced", url),
              price |-> nullNum, image |-> PlaceholderImport,
              dimensions |-> nullDims, weight |-> nullNum, category |-> null]))

\* The gap filling of "selectors" (unnamed/part_000:1075-1093).
FillSelectors(product, ai) ==
  IF (product.dimensions = nullDims \/ ~Truthy(product.weight)) /\ ~IsNull(ai)
    THEN LET d == IF product.dimensions = nullDims /\ ai.dimensions # nullDims
                    THEN ai.dimensions ELSE product.dimensions
             w == IF ~Truthy(product.weight) /\ Truthy(ai.weight)
                    THEN ai.weight ELSE product.weight
         IN  [product EXCEPT
                !.dimensions = d, !.weight = w,
                !.shippingCost = estimateShippingCostSelectors(
                                   product.category, product.price, w, d)]
    ELSE product

\* finalProduct of "selectors" (unnamed/part_000:1062-1073).
ProductSelectors(url, retailer, data, method, category) ==
  Spread(data, [url |-> url, retailer |-> retailer, category |-> category,
                shippingCost |-> estimateShippingCostSelectors(
                                   category, data.price, data.weight, data.dimensions),
                scrapingMethod |-> method])

FinishSelectors(product, calls) ==
  Outcome("fulfilled", product, calls, <<product>>, <<Recorded(product)>>,
          FALSE, FALSE)

EnhanceSelectors(url, retailer, s, category) ==
  FinishSelectors(
    FillSelectors(ProductSelectors(url, retailer, s.data, s.method, category),
                  getSmartEstimation(category, s.data.name, retailer)),
    s.calls)

AfterProvidersSelectors(url, retailer, s) ==
  EnhanceSelectors(url, retailer, s, determineCategory(s.data.name, retailer))

\* scrapeProductData of "selectors" (unnamed/part_000:999-1106).
ScrapeSelectors(url, kind, known) ==
  IF ~IsNull(known)
    THEN Outcome("fulfilled",
           Spread(known, [url |-> url,
                          retailer |-> detectRetailer("selectors", url),
                          scrapingMethod |-> "ai_cache"]),
           << >>, << >>, << >>, TRUE, FALSE)
    ELSE AfterProvidersSelectors(url, detectRetailer("selectors", url),
           OrFallback(
             Try(Try(Start(null), IsAvailable("selectors", "apify"),
                     "apify", "apify", ApifyScrapeProduct(kind["apify"])),
                 IsAvailable("selectors", "scrapingbee"), "scrapingbee",
                 "scrapingbee", scrapeWithScrapingBee(url, kind["scrapingbee"])),
             [name |-> "Product from " \o detectRetailer("selectors", url),
              price |-> nullNum, image |-> Placeholder, dimensions |-> nullDims,
              weight |-> nullNum, category |-> "General Merchandise"]))

\* createFallbackProduct(url) of "test"; `noise` is the random draw of its
\* own estimateShippingCost call.
createFallbackProduct(url, mode, noise) ==
  [url |-> url, name |-> "Product from " \o detectRetailer("test", url),
   retailer |-> detectRetailer("test", url), category |-> guessCategory(url),
   price |-> nullNum, image |-> Placeholder, dimensions |-> nullDims,
   weight |-> nullNum, scrapingMethod |-> "fallback",
   shippingCost |-> estimateShippingCostTest(guessCategory(url), nullDims, nullNum,
                                             mode, noise)]

\* The gap filling of enhanceWithShippingCost.
FillTest(product, ai) ==
  IF IsNull(ai) THEN product
  ELSE Spread(product,
         [dimensions |-> IF Get(product, "dimensions", nullDims) = nullDims
                              /\ ai.dimensions # nullDims
                           THEN ai.dimensions ELSE Get(product, "dimensions", nullDims),
          weight |-> IF ~Truthy(Get(product, "weight", nullNum)) /\ Truthy(ai.weight)
                       THEN ai.weight ELSE Get(product, "weight", nullNum)])

CostTest(product, mode, noise) ==
  Spread(product,
    [shippingCost |-> estimateShippingCostTest(
                        Get(product, "category", null),
                        Get(product, "dimensions", nullDims),
                        Get(product, "weight", nullNum), mode, noise)])

\* enhanceWithShippingCost(product) of "test": updates the object it is given
\* and returns it.
enhanceWithShippingCost(product, mode, noise) ==
  CostTest(FillTest(product,
             IF mode THEN JsNull
             ELSE getSmartEstimation(Get(product, "category", null),
                                     Get(product, "name", null),
                                     Get(product, "retailer", null))),
           mode, noise)

\* One turn of `for (const method of methods)`: `done` is the break.
TryMethod(s, available, provider, method, r) ==
  IF s.done \/ ~available THEN s
  ELSE IF r.threw THEN [s EXCEPT !.calls = Append(@, provider)]
  ELSE [data |-> IF HasName(r.data)
                   THEN Spread(r.data, [scrapingMethod |-> method]) ELSE r.data,
        done |-> HasName(r.data),
        calls |-> Append(s.calls, provider)]

\* Saving and recording `if (!TEST_MODE && productData.scrapingMethod)`.
FinishTest(url, product, calls, mode, hit, fromMemory) ==
  LET persist == ~mode /\ Get(product, "scrapingMethod", null) # null
  IN  Outcome("fulfilled", product, calls,
        IF persist THEN <<product>> ELSE << >>,
        IF persist
          THEN << [url |-> url, retailer |-> Get(product, "retailer", null),
                   result |-> product,
                   method |-> Get(product, "scrapingMethod", null)] >>
          ELSE << >>,
        hit, hit /\ fromMemory)

AfterMethodsTest(url, s, mode, noise, hit, fromMemory) ==
  FinishTest(url,
    enhanceWithShippingCost(
      IF HasName(s.data) THEN s.data ELSE createFallbackProduct(url, mode, noise),
      mode, noise),
    s.calls, mode, hit, fromMemory)

\* The body of the per-URL loop of POST /api/scrape of "test"
\* (backend/server.js:80-130).  `noise` is the random draw of the estimate
\* made by enhanceWithShippingCost; the draw of the fallback's own estimate
\* is of no consequence, that estimate being replaced (line 351), and is
\* taken to be the same.
ScrapeTest(url, kind, known, fromMemory, mode, noise) ==
  IF ~IsNull(known) /\ ~mode
    THEN AfterMethodsTest(url, [data |-> known, done |-> TRUE, calls |-> << >>],
                          mode, noise, TRUE, fromMemory)
    ELSE AfterMethodsTest(url,
           TryMethod(
             TryMethod([data |-> JsNull, done |-> FALSE, calls |-> << >>],
                       IsAvailable("test", "apify"), "apify", "Apify",
                       ApifyScrapeProduct(kind["apify"])),
             IsAvailable("test", "scrapingbee"), "scrapingbee", "Adaptive",
             AdaptiveScrapeProduct(url, kind["scrapingbee"])),
           mode, noise, FALSE, FALSE)

\* calculateLandedPrice(productPrice, shippingCost): the price in dollars as
\* given, the other amounts in cents (the margin as an exact quotient).
calculateLandedPrice(productPrice, shippingCost) ==
  LET subtotal == productPrice * 100 + shippingCost
  IN  [productPrice |-> productPrice, shippingCost |-> shippingCost,
       subtotal |-> subtotal, margin |-> [num |-> subtotal, den |-> 4],
       landedPrice |-> (5 * subtotal + 2) \div 4]

\* `result` of "bee_ai" (backend/server.js:662-682).
ResultBeeAI(url, retailer, data, method, category) ==
  LET estimatedPrice == IF Truthy(data.price) THEN data.price ELSE DefaultPrice
      shippingCost == calculateShippingCostBeeAI(category,
                        Get(data, "weight", nullNum), estimatedPrice,
                        Get(data, "dimensions", nullDims))
  IN  [url |-> url, name |-> data.name, price |-> data.price,
       image |-> data.image, retailer |-> retailer, category |-> category,
       weight |-> Get(data, "weight", nullNum),
       dimensions |-> Get(data, "dimensions", nullDims),
       shippingCost |-> shippingCost,
       landedPricing |-> calculateLandedPrice(estimatedPrice, shippingCost),
       scrapingMethod |-> method,
       needsPriceConfirmation |-> ~Truthy(data.price) \/ method = "fallback"]

\* saveProduct and recordScrapingResult are called without await: the
\* Product is returned whatever becomes of them.
FinishBeeAI(result, calls) ==
  Outcome("fulfilled", result, calls, <<Saved(result)>>, <<Recorded(result)>>,
          FALSE, FALSE)

AfterProvidersBeeAI(url, retailer, s) ==
  FinishBeeAI(ResultBeeAI(url, retailer, s.data, s.method,
                          categorizeProductBeeAI(s.data.name, url)),
              s.calls)

\* The first block of "bee_ai": scrapeWithScrapingBeeAI is called
\* unconditionally.
TryBeeAI(s, data) ==
  [data |-> data, method |-> IF IsNull(data) THEN s.method ELSE "scrapingbee_ai",
   calls |-> Append(s.calls, "scrapingbee")]

\* scrapeProductData of "bee_ai" (backend/server.js:624-700); the store is
\* never read.
ScrapeBeeAI(url, kind) ==
  AfterProvidersBeeAI(url, detectRetailer("bee_ai", url),
    OrFallback(
      Try(TryBeeAI(Start("unknown"), scrapeWithScrapingBeeAI(kind["scrapingbee"])),
          IsAvailable("bee_ai", "apify"), "apify", "apify",
          ApifyScrapeProduct(kind["apify"])),
      [name |-> "Product from " \o detectRetailer("bee_ai", url), price |-> nullNum,
       image |-> PlaceholderImport, scrapingMethod |-> "fallback"]))

\* --------------------------------------------------------------- actions
Idle == [idle |-> TRUE]
IsIdle(r) == "idle" \in DOMAIN r

\* A revision reads only the credentials of its own providers.
Known(v, p) == \E i \in 1 .. Len(ProviderOrder(v)) : ProviderOrder(v)[i] = p

Init ==
  /\ variant \in Variants
  /\ testMode \in (IF variant = "selectors" THEN {FALSE} ELSE BOOLEAN)
  /\ env \in {e \in [Providers -> BOOLEAN] :
                \A p \in Providers : ~Known(variant, p) => ~e[p]}
  /\ memProducts = EmptyMap
  /\ dbProducts = EmptyMap
  /\ scrapingResults = << >>
  /\ dbScrapingResults = << >>
  /\ insights = [totalProducts |-> 0, totalScrapes |-> 0]
  /\ req = Idle
  /\ last = Idle
  /\ ops = 0
  /\ est = Idle
  /\ cls = Idle
  /\ turso = [products |-> EmptyMap]
  /\ batch = Idle
  /\ hist = << >>
  /\ smart = Idle

\* `if (TEST_MODE)` of POST /api/scrape in "enhanced" and "bee_ai": mock
\* Products are returned and scrapeProductData is not called.
MockMode == testMode /\ variant \in {"enhanced", "bee_ai"}

\* What the world can answer one resolution with.  A provider that is not
\* invoked for want of a credential has no outcome ("none"); a database read
\* matters only where a row exists and the revision reads the store; writes
\* and random draws only where the revision makes them.
Answers(url) ==
  LET kinds == {k \in [Providers -> Kinds] :
                  \A p \in Providers : ~IsAvailable(variant, p) => k[p] = "none"}
      reads == IF variant # "bee_ai" /\ url \in DOMAIN dbProducts
                 THEN BOOLEAN ELSE {FALSE}
      writes == IF variant = "test" /\ testMode THEN {FALSE} ELSE BOOLEAN
      draws == IF variant = "test" /\ testMode THEN RandomNoise ELSE {0}
  IN  {[url |-> url, kind |-> k, dbGet |-> g, dbSave |-> s, dbRec |-> r, noise |-> n] :
         k \in kinds, g \in reads, s \in writes, r \in writes, n \in draws}

\* A client asks for the resolution of a URL (one url of POST /api/scrape);
\* the response to the previous one has been sent.
Request ==
  /\ ops < MaxOps
  /\ IsIdle(req)
  /\ ~MockMode
  /\ \E url \in URLs : \E answer \in Answers(url) : req' = answer
  /\ last' = Idle
  /\ UNCHANGED <<config, store, ops, aside>>

\* The store after the writes of one resolution: the in-place update of the
\* Map's object, then saveProduct, then recordScrapingResult.
Persist(out, r) ==
  LET st0 == IF out.touched
               THEN [StoreNow EXCEPT !.mem = MapSet(StoreNow.mem, r.url, out.value)]
               ELSE StoreNow
      st1 == IF out.saves = << >> THEN st0
             ELSE saveProduct(st0, out.saves[1], r.dbSave)
  IN  IF out.records = << >> THEN st1
      ELSE recordScrapingResult(st1, out.records[1].url, out.records[1].retailer,
                                out.records[1].result, out.records[1].method,
                                r.dbRec)

\* A variant of the step below in which a failed saveProduct rejects the
\* resolution.
RespondSurfacing(known, out) ==
  LET st == Persist(out, req)
      failed == out.saves # << >> /\ ~req.dbSave
  IN  /\ memProducts' = st.mem
      /\ dbProducts' = st.db
      /\ scrapingResults' = st.log
      /\ dbScrapingResults' = st.dblog
      /\ insights' = st.insights
      /\ last' = [url |-> req.url, kind |-> req.kind, known |-> known,
                  out |-> IF failed THEN [out EXCEPT !.status = "rejected"] ELSE out]
      /\ req' = Idle
      /\ ops' = ops + 1
      /\ UNCHANGED <<config, aside>>

Respond(known, out) ==
  LET st == Persist(out, req)
  IN  /\ memProducts' = st.mem
      /\ dbProducts' = st.db
      /\ scrapingResults' = st.log
      /\ dbScrapingResults' = st.dblog
      /\ insights' = st.insights
      /\ last' = [url |-> req.url, kind |-> req.kind, known |-> known, out |-> out]
      /\ req' = Idle
      /\ ops' = ops + 1
      /\ UNCHANGED <<config, aside>>

ResolveEnhanced ==
  /\ variant = "enhanced" /\ ~IsIdle(req)
  /\ LET known == getKnownProduct(req.url, req.dbGet)
     IN  Respond(known, ScrapeEnhanced(req.url, req.kind, known))

ResolveSelectors ==
  /\ variant = "selectors" /\ ~IsIdle(req)
  /\ LET known == getKnownProduct(req.url, req.dbGet)
     IN  Respond(known, ScrapeSelectors(req.url, req.kind, known))

ResolveTest ==
  /\ variant = "test" /\ ~IsIdle(req)
  /\ LET known == getKnownProduct(req.url, req.dbGet)
         fromMemory == ~(req.dbGet /\ req.url \in DOMAIN dbProducts)
     IN  Respond(known, ScrapeTest(req.url, req.kind, known, fromMemory,
                                   testMode, req.noise))

\* "bee_ai" makes no lookup; `last` notes the record one would have found.
ResolveBeeAI ==
  /\ variant = "bee_ai" /\ ~IsIdle(req)
  /\ Respond(getKnownProduct(req.url, TRUE), ScrapeBeeAI(req.url, req.kind))

\* The prices a user confirms (newPrice; nullNum is a body without one).
NewPrices == {nullNum, 45}

\* POST /api/update-price of "bee_ai" (backend/server.js:796-830); `hist`
\* keeps the body of the request and the fate of the save.
UpdatePrice ==
  /\ variant = "bee_ai" /\ IsIdle(req)
  /\ ops < MaxOps
  /\ \E url \in URLs, newPrice \in NewPrices, confirmed \in BOOLEAN, dbSave \in BOOLEAN :
       LET st == IF newPrice # nullNum /\ confirmed
                   THEN saveProduct(StoreNow,
                          [url |-> url, price |-> newPrice,
                           retailer |-> detectRetailer("bee_ai", url),
                           category |-> "General Merchandise", confirmed |-> TRUE],
                          dbSave)
                   ELSE StoreNow
       IN  /\ memProducts' = st.mem
           /\ dbProducts' = st.db
           /\ insights' = st.insights
           /\ hist' = << [url |-> url, newPrice |-> newPrice,
                           confirmed |-> confirmed, dbSave |-> dbSave] >>
  /\ last' = Idle
  /\ ops' = ops + 1
  /\ UNCHANGED <<config, scrapingResults, dbScrapingResults, req,
                 est, cls, turso, batch, smart>>

Next ==
  \/ Request
  \/ ResolveEnhanced \/ ResolveSelectors \/ ResolveTest \/ ResolveBeeAI
  \/ UpdatePrice

Spec == Init /\ [][Next]_vars

\* ------------------------------------------------- the estimator alone
\* The arguments the estimator is evaluated on.
Categories == {"Furniture", "Electronics", "Clothing", "General Merchandise"}
Weights == {nullNum, 0, 2, 12, 60}
Prices == {nullNum, 20, 150, 600}
Dimensions == {nullDims, <<5, 4, 4>>, <<12, 0, 8>>, <<30, 30, 20>>}
Inputs == [category : Categories, weight : Weights, price : Prices,
           dimensions : Dimensions]

\* The estimator of the running revision, in cents.
Estimator(input, noise) ==
  CASE variant = "enhanced" ->
         calculateShippingCost(input.category, input.weight, input.price,
                               input.dimensions)
    [] variant = "selectors" ->
         estimateShippingCostSelectors(input.category, input.price, input.weight,
                                       input.dimensions)
    [] variant = "test" ->
         estimateShippingCostTest(input.category, input.dimensions, input.weight,
                                  testMode, noise)
    [] OTHER ->
         calculateShippingCostBeeAI(input.category, input.weight, input.price,
                                    input.dimensions)

\* The value Math.random() has for an evaluation ("test" alone reads it, and
\* in TEST_MODE only).
Draws == IF variant = "test" THEN RandomNoise ELSE {0}

\* The estimator is evaluated on an input ...
Estimate ==
  /\ IsIdle(est)
  /\ \E input \in Inputs : \E noise \in Draws :
       est' = [input |-> input, outs |-> <<Estimator(input, noise)>>]
  /\ UNCHANGED <<config, store, req, last, ops, cls, turso, batch, hist, smart>>

\* ... and again on the same input.
EstimateAgain ==
  /\ ~IsIdle(est)
  /\ Len(est.outs) < MaxEvals
  /\ \E noise \in Draws :
       est' = [est EXCEPT !.outs = Append(@, Estimator(est.input, noise))]
  /\ UNCHANGED <<config, store, req, last, ops, cls, turso, batch, hist, smart>>

NextEst == Estimate \/ EstimateAgain

SpecEst == Init /\ [][NextEst]_vars

\* ------------------------------------------------ the classifier alone
\* The names the classifier is evaluated on (null is an undefined name).
ClassifierNames == {ApifyTitle, BeeTitle, UpcTitle, GamingChairTitle, BoardGameTitle,
                    "Unknown Product", null}

\* The category classifier of the running revision.
Classifier(name, url) ==
  CASE variant = "enhanced" -> categorizeProduct(name, url)
    [] variant = "selectors" -> determineCategory(name, detectRetailer("selectors", url))
    [] variant = "test" -> guessCategory(url)
    [] OTHER -> categorizeProductBeeAI(name, url)

\* The classifier is evaluated on a name and a URL.
Classify ==
  /\ IsIdle(cls)
  /\ \E name \in ClassifierNames, url \in URLs :
       cls' = [name |-> name, url |-> url, category |-> Classifier(name, url)]
  /\ UNCHANGED <<config, store, req, last, ops, est, turso, batch, hist, smart>>

NextCls == Classify

SpecCls == Init /\ [][NextCls]_vars

\* ---------------------------------------------------- the stores alone
\* saveProduct calls made in one behaviour.
MaxSaves == 3

\* TursoDatabase.saveProduct: the confidence computed from the fields present,
\* in hundredths.
TursoConfidence(product) ==
  30 + (IF product.name # null /\ product.name # "Unknown Product" THEN 20 ELSE 0)
     + (IF Truthy(product.price) THEN 20 ELSE 0)
     + (IF product.dimensions # nullDims /\ product.dimensions[1] > 0 THEN 20 ELSE 0)
     + (IF Truthy(product.weight) THEN 10 ELSE 0)

\* TursoDatabase.saveProduct: the products table after INSERT OR REPLACE, whose
\* times_seen is COALESCE((SELECT times_seen + 1 ... WHERE url = ?), 1).
\* `ok`: the store is enabled and the statement succeeds; otherwise nothing
\* is written.
TursoSaveProduct(t, product, ok) ==
  LET d == product.dimensions
      row == [name |-> product.name, retailer |-> product.retailer,
              category |-> product.category, price |-> product.price,
              weight |-> product.weight,
              length |-> IF d = nullDims THEN 0 ELSE d[1],
              width |-> IF d = nullDims THEN 0 ELSE d[2],
              height |-> IF d = nullDims THEN 0 ELSE d[3],
              image |-> product.image, scrape_method |-> product.scrapingMethod,
              confidence |-> TursoConfidence(product),
              times_seen |-> IF product.url \in DOMAIN t.products
                               THEN t.products[product.url].times_seen + 1 ELSE 1]
  IN  IF ok THEN [t EXCEPT !.products = MapSet(t.products, product.url, row)] ELSE t

\* The products the stores are asked to save: a scraped one, a fallback one
\* and, for the learning system, a confirmed price.
SavedProducts(target) ==
  LET scraped(u) == [url |-> u, name |-> ApifyTitle,
                     retailer |-> detectRetailer("enhanced", u),
                     category |-> "Furniture", price |-> 120, weight |-> 12,
                     dimensions |-> <<20, 20, 30>>,
                     image |-> "https://img.example/apify.jpg",
                     scrapingMethod |-> "apify"]
      fallback(u) == [url |-> u,
                      name |-> "Product from " \o detectRetailer("enhanced", u),
                      retailer |-> detectRetailer("enhanced", u),
                      category |-> "General Merchandise", price |-> nullNum,
                      weight |-> nullNum, dimensions |-> nullDims,
                      image |-> PlaceholderImport, scrapingMethod |-> "fallback"]
      confirmed(u) == [url |-> u, price |-> 45,
                       retailer |-> detectRetailer("bee_ai", u),
                       category |-> "General Merchandise", confirmed |-> TRUE]
  IN  {scraped(u) : u \in URLs} \cup {fallback(u) : u \in URLs}
        \cup (IF target = "learning" THEN {confirmed(u) : u \in URLs} ELSE {})

\* The record a lookup of url finds in the learning system's store st when
\* the database answers: the database row if there is one, else the Map's.
Lookup(st, url) ==
  IF url \in DOMAIN st.db THEN st.db[url]
  ELSE IF url \in DOMAIN st.mem THEN st.mem[url] ELSE JsNull

\* learningSystem.saveProduct(productData) is called.
Save ==
  /\ Len(hist) < MaxSaves
  /\ \E product \in SavedProducts("learning"), dbOk \in BOOLEAN :
       LET st == saveProduct(StoreNow, product, dbOk)
       IN  /\ memProducts' = st.mem
           /\ dbProducts' = st.db
           /\ insights' = st.insights
           /\ hist' = Append(hist, [target |-> "learning", product |-> product,
                                    ok |-> TRUE,
                                    record |-> Lookup(st, product.url)])
  /\ UNCHANGED <<config, scrapingResults, dbScrapingResults, req, last, ops, est,
                 cls, turso, batch, smart>>

\* tursoDatabase.saveProduct(product) is called.
TursoSave ==
  /\ Len(hist) < MaxSaves
  /\ \E product \in SavedProducts("turso"), ok \in BOOLEAN :
       LET t == TursoSaveProduct(turso, product, ok)
       IN  /\ turso' = t
           /\ hist' = Append(hist, [target |-> "turso", product |-> product,
                                    ok |-> ok,
                                    record |-> IF product.url \in DOMAIN t.products
                                                 THEN t.products[product.url]
                                                 ELSE JsNull])
  /\ UNCHANGED <<config, store, req, last, ops, est, cls, batch, smart>>

NextStore == Save \/ TursoSave

SpecStore == Init /\ [][NextStore]_vars

\* ------------------------------------------------ the batch coordinator
\* The longest URL list explored.
MaxUrls == 4

\* const batchSize = 3
batchSize == 3

\* The resolutions a revision has in flight at once: "test" awaits each URL
\* in turn.
GroupSize(v) == IF v = "test" THEN 1 ELSE batchSize

\* A variant of the cap below that lets one URL more through.
MaxBatchOffByOne(v) == IF v = "test" THEN 51 ELSE 21

\* `urls.length > 20` (50 in "test")
MaxBatch(v) == IF v = "test" THEN 50 ELSE 20

\* The lists of 20, 21, 50 and 51 URLs: the two URLs in turn.
LongLists ==
  {[i \in 1 .. n |-> IF i % 2 = 1 THEN AmazonChairUrl ELSE LowesUrl] :
     n \in {20, 21, 50, 51}}

\* req.body.urls: absent, a string, or a list of URLs.
Bodies ==
  {[kind |-> "missing", list |-> << >>], [kind |-> "string", list |-> << >>]}
    \cup {[kind |-> "list", list |-> l] :
            l \in UNION {[1 .. n -> URLs] : n \in 0 .. MaxUrls} \cup LongLists}

\* A variant of the test below that lets an empty list through.
ValidBodyLoose(body) == body.kind = "list"

\* `!urls || !Array.isArray(urls) || urls.length === 0`, negated.
ValidBody(body) == body.kind = "list" /\ Len(body.list) > 0

\* The mock Product of TEST_MODE (price 99.99, weight 2.5, the dimensions and
\* the image are constants as well); shippingCost in cents.
MockProduct(v, url, index) ==
  [url |-> url, name |-> "Test Product " \o ToString(index),
   retailer |-> detectRetailer(v, url), category |-> "General Merchandise",
   shippingCost |-> 2550, scrapingMethod |-> "test_mode"]

\* The Product pushed for a rejected resolution.
ErrorFallback(v, url) ==
  IF v = "test" THEN createFallbackProduct(url, testMode, 0)
  ELSE [url |-> url, name |-> "Product from " \o detectRetailer(v, url),
        price |-> nullNum, image |-> Placeholder,
        retailer |-> detectRetailer(v, url), category |-> "General Merchandise",
        weight |-> nullNum, dimensions |-> nullDims, shippingCost |-> 2000,
        scrapingMethod |-> "error_fallback"]

\* A variant of the operator below that pushes nothing for a rejection.
EntryDropped(v, url, o) ==
  IF o.status = "fulfilled" THEN <<o.value>> ELSE << >>

\* What the coordinator pushes for one settled resolution: its Product, or
\* the fallback for a rejection ("selectors" filters its nulls out).
Entry(v, url, o) ==
  IF o.status = "fulfilled" THEN <<o.value>>
  ELSE IF v = "selectors" THEN << >>
  ELSE <<ErrorFallback(v, url)>>

\* A variant of the operator below that takes the results as they settled.
AsSettled(outs, from) == outs

\* batchResults: the settled results by position in the group, whatever the
\* order they settled in.
Positional(outs, from) ==
  [i \in 1 .. Len(outs) |->
     CHOOSE o \in {outs[k] : k \in 1 .. Len(outs)} : o.index = from + i - 1]

RECURSIVE Pushed(_, _, _)
\* results after `batchResults.forEach(...)`; each Product is noted with the
\* position of the URL it was resolved from.
Pushed(results, urls, group) ==
  IF group = << >> THEN results
  ELSE LET o == Head(group)
           entry == Entry(variant, urls[o.index], o)
       IN  Pushed(results \o [i \in 1 .. Len(entry) |->
                                [slot |-> o.index, product |-> entry[i]]],
                  urls, Tail(group))

\* What the world answers one resolution of a batch with: every provider
\* asked meets the same fate, no database is configured (this.db is null),
\* and the random draws of TEST_MODE are the extreme ones.  In the long
\* lists every provider asked delivers and the draw is 0.
BatchAnswers(url) ==
  LET long == Len(batch.body.list) > MaxUrls
  IN  {[url |-> url, dbGet |-> FALSE, dbSave |-> FALSE, dbRec |-> FALSE, noise |-> n,
        kind |-> [p \in Providers |-> IF IsAvailable(variant, p) THEN k ELSE "none"]] :
         k \in (IF long THEN {"full"} ELSE {"throw", "empty", "full"}),
         n \in (IF variant = "test" /\ testMode /\ ~long THEN {-5, 4} ELSE {0})}

\* The store lookup a resolution begins with.  No database being configured,
\* `await learningSystem.getKnownProduct(url)` reads the memory Map and is
\* over before any provider has answered ("bee_ai" makes no lookup).
Looked(url) ==
  [known |-> IF variant = "bee_ai" THEN JsNull ELSE getKnownProduct(url, FALSE),
   fromMemory |-> TRUE]

\* A variant of the operator below that starts every remaining resolution.
StartAll(b, from) ==
  [b EXCEPT !.next = from,
            !.outs = << >>,
            !.flight = [j \in from .. Len(b.body.list) |-> Looked(b.body.list[j])],
            !.reads = IF variant = "bee_ai" THEN @ ELSE @ + Len(b.body.list) - from + 1]

\* `batch.map(url => scrapeProductData(url))`: the resolutions of the group
\* beginning at position `from` are started, each up to its first provider
\* call.
StartGroup(b, from) ==
  LET to == Min(from + GroupSize(variant) - 1, Len(b.body.list))
  IN  [b EXCEPT !.next = from,
                !.outs = << >>,
                !.flight = [j \in from .. to |-> Looked(b.body.list[j])],
                !.reads = IF variant = "bee_ai" THEN @ ELSE @ + to - from + 1]

\* The turn of `for (let i = 0; i < urls.length; i += batchSize)` at position
\* `from`: the next group is started, or the loop is over and
\* `res.json({ products: results })` is sent.
Continue(b, from) ==
  IF from <= Len(b.body.list)
    THEN StartGroup(b, from)
    ELSE [b EXCEPT !.response =
            [status |-> 200,
             products |-> [i \in 1 .. Len(b.results) |-> b.results[i].product]]]

\* POST /api/scrape arrives: validation, the cap, the mock data of TEST_MODE,
\* or the start of the first group.
Accept ==
  /\ IsIdle(batch)
  /\ \E body \in Bodies :
       LET b == [body |-> body, next |-> 1, flight |-> EmptyMap, outs |-> << >>,
                 results |-> << >>, calls |-> 0, reads |-> 0, writes |-> 0,
                 early |-> FALSE, response |-> Idle]
       IN  batch' =
             IF ~ValidBody(body) \/ Len(body.list) > MaxBatch(variant)
               THEN [b EXCEPT !.response = [status |-> 400]]
             ELSE IF MockMode
               THEN [b EXCEPT !.response =
                       [status |-> 200,
                        products |-> [i \in 1 .. Len(body.list) |->
                                        MockProduct(variant, body.list[i], i)]]]
             ELSE Continue(b, 1)
  /\ UNCHANGED <<config, store, req, last, ops, est, cls, turso, hist, smart>>

\* scrapeProductData of the running revision, after its lookup.
Resolution(url, a, f) ==
  CASE variant = "enhanced" -> ScrapeEnhanced(url, a.kind, f.known)
    [] variant = "selectors" -> ScrapeSelectors(url, a.kind, f.known)
    [] variant = "test" -> ScrapeTest(url, a.kind, f.known, f.fromMemory,
                                      testMode, a.noise)
    [] OTHER -> ScrapeBeeAI(url, a.kind)

\* One resolution in flight runs to its end: the providers
\* answer, the store is written, and the promise settles.
Settle ==
  /\ ~IsIdle(batch)
  /\ \E j \in DOMAIN batch.flight :
       /\ ~IsIdle(batch.flight[j])
       /\ \E a \in BatchAnswers(batch.body.list[j]) :
            LET out == Resolution(batch.body.list[j], a, batch.flight[j])
                st == Persist(out, a)
            IN  /\ memProducts' = st.mem
                /\ dbProducts' = st.db
                /\ scrapingResults' = st.log
                /\ dbScrapingResults' = st.dblog
                /\ insights' = st.insights
                /\ batch' = [batch EXCEPT
                     !.flight = [k \in DOMAIN batch.flight \ {j} |-> batch.flight[k]],
                     !.outs = Append(@, [index |-> j, status |-> out.status,
                                         value |-> out.value]),
                     !.early = @ \/ \E k \in DOMAIN batch.flight : k < j,
                     !.calls = @ + Len(out.calls),
                     !.writes = @ + Len(out.saves) + Len(out.records)]
  /\ UNCHANGED <<config, req, last, ops, est, cls, turso, hist, smart>>

\* `await Promise.allSettled(batchPromises)` returns: the results are pushed
\* by position, and the next group is started or the response is sent.
Collect ==
  /\ ~IsIdle(batch)
  /\ batch.flight = EmptyMap /\ batch.outs # << >>
  /\ LET b == [batch EXCEPT
                 !.results = Pushed(@, batch.body.list,
                                    Positional(batch.outs, batch.next)),
                 !.outs = << >>]
     IN  batch' = Continue(b, batch.next + Len(batch.outs))
  /\ UNCHANGED <<config, store, req, last, ops, est, cls, turso, hist, smart>>

NextBatch == Accept \/ Settle \/ Collect

SpecBatch == Init /\ [][NextBatch]_vars

\* ------------------------------------------------------ smart estimation
\* The most rows of one category and retailer explored.
MaxSamples == 7

\* A quotient of two integers, kept exact.
Frac(num, den) == [num |-> num, den |-> den]

RECURSIVE SumSeq(_)
\* numbers.reduce((a, b) => a + b, 0)
SumSeq(numbers) ==
  IF numbers = << >> THEN 0 ELSE Head(numbers) + SumSeq(Tail(numbers))

\* A variant of the operator below that never trims.
calculatePlainAverage(numbers) ==
  LET filtered == SelectSeq(numbers, LAMBDA n : n > 0)
  IN  IF Len(filtered) = 0 THEN Frac(0, 1)
      ELSE Frac(SumSeq(filtered), Len(filtered))

\* TursoDatabase.calculateSmartAverage; NULL and 0 fail `n && n > 0`, and
\* Math.floor(length * 0.2) is (2 * length) \div 10.
calculateSmartAverage(numbers) ==
  LET filtered == SelectSeq(numbers, LAMBDA n : n > 0)
      sorted == SortSeq(filtered, LAMBDA a, b : a < b)
      cutoff == (2 * Len(filtered)) \div 10
      trimmed == SubSeq(sorted, cutoff + 1, Len(sorted) - cutoff)
  IN  IF Len(filtered) = 0 THEN Frac(0, 1)
      ELSE IF Len(filtered) > 5 THEN Frac(SumSeq(trimmed), Len(trimmed))
      ELSE Frac(SumSeq(filtered), Len(filtered))

\* column of the rows
Column(rows, name) == [i \in 1 .. Len(rows) |-> rows[i][name]]

\* TursoDatabase.getSmartEstimation, on the products table in the order of
\* times_seen and the category_patterns table; `enabled` is isEnabled() with
\* the queries succeeding (a failing query is caught and null returned).
tursoGetSmartEstimation(enabled, products, patterns, category, retailer) ==
  LET matching == SelectSeq(products,
                     LAMBDA r : /\ r.category = category
                                /\ r.retailer = retailer
                                /\ r.confidence > 60)
      similar == SubSeq(matching, 1, Min(Len(matching), 10))
      pattern == SelectSeq(patterns,
                   LAMBDA r : r.category = category /\ r.sample_count > 5)
  IN  IF ~enabled THEN JsNull
      ELSE IF Len(similar) > 3
        THEN [dimensions |-> <<calculateSmartAverage(Column(similar, "length")),
                               calculateSmartAverage(Column(similar, "width")),
                               calculateSmartAverage(Column(similar, "height"))>>,
              weight |-> calculateSmartAverage(Column(similar, "weight")),
              confidence |-> Min(90, 50 + 5 * Len(similar)),
              source |-> "turso_similar_products"]
      ELSE IF Len(pattern) > 0
        THEN [dimensions |-> <<Frac(pattern[1].avg_length, 1),
                               Frac(pattern[1].avg_width, 1),
                               Frac(pattern[1].avg_height, 1)>>,
              weight |-> Frac(pattern[1].avg_weight, 1),
              confidence |-> Min(70, 30 + 2 * pattern[1].sample_count),
              source |-> "turso_category_patterns"]
      ELSE JsNull

\* The rows a products table is filled with: three Furniture products seen
\* at Amazon (the third an outlier), one without weight or dimensions, one
\* whose confidence is the floor itself, and one seen at another retailer.
SampleRow(shape) ==
  LET row == [category |-> "Furniture", retailer |-> "Amazon", confidence |-> 80,
              weight |-> 10, length |-> 20, width |-> 10, height |-> 10]
  IN  CASE shape = "light" -> row
        [] shape = "medium" -> [row EXCEPT !.weight = 20, !.length = 30, !.width = 20]
        [] shape = "heavy" -> [row EXCEPT !.weight = 500, !.length = 200,
                                          !.width = 100, !.height = 100]
        [] shape = "blank" -> [row EXCEPT !.weight = 0, !.length = 0,
                                          !.width = 0, !.height = 0]
        [] shape = "floor" -> [row EXCEPT !.confidence = 60, !.weight = 40]
        [] OTHER -> [row EXCEPT !.retailer = "Lowes", !.weight = 40]

\* n rows of one shape
Rows(shape, n) == [i \in 1 .. n |-> SampleRow(shape)]

\* The products tables explored.
Tables ==
  {Rows("heavy", h) \o Rows("floor", f) \o Rows("light", l) \o Rows("other", o)
     \o Rows("medium", m) \o Rows("blank", b) :
     h \in 0 .. 1, f \in 0 .. 2, o \in 0 .. 1, b \in 0 .. 1,
     m \in 0 .. 2, l \in 0 .. MaxSamples - 3}

\* The category_patterns tables explored: no row, or the Furniture row with
\* 5 or 6 samples.
PatternTables ==
  {<< >>} \cup
  {<<[category |-> "Furniture", sample_count |-> n, avg_weight |-> 45,
      avg_length |-> 32, avg_width |-> 24, avg_height |-> 30]>> : n \in {5, 6}}

\* getSmartEstimation('Furniture', name, 'Amazon') is asked of a store: of
\* the LearningSystem the servers use, or of a TursoDatabase.
SmartEstimate ==
  /\ IsIdle(smart)
  /\ \E target \in {"learning", "turso"}, enabled \in BOOLEAN,
        products \in Tables, patterns \in PatternTables :
       /\ target = "learning" => enabled
       /\ smart' = [target |-> target, enabled |-> enabled,
                    products |-> products, patterns |-> patterns,
                    result |-> IF target = "learning"
                                 THEN getSmartEstimation("Furniture", ApifyTitle, "Amazon")
                                 ELSE tursoGetSmartEstimation(enabled, products, patterns,
                                                              "Furniture", "Amazon")]
  /\ UNCHANGED <<config, store, req, last, ops, est, cls, turso, batch, hist>>

NextSmart == SmartEstimate

SpecSmart == Init /\ [][NextSmart]_vars

\* ------------------------------------------- the Turso store looked up
\* Calls of TursoDatabase.saveProduct and getKnownProduct in one behaviour.
MaxPuts == 2
MaxGets == 3

\* The step a hit adds to the confidence (0.05), in hundredths.
ConfidenceStep == 5

\* A variant of the lookup below whose UPDATE has no MIN(1.0, ...).
tursoGetKnownProductUncapped(t, url, enabled, ok) ==
  LET stale == Get(t, "stale", {})
      hit == /\ enabled /\ ok
             /\ url \in DOMAIN t.products
             /\ url \notin stale
             /\ t.products[url].confidence > ConfidenceThreshold
  IN  IF hit
        THEN LET row == t.products[url]
             IN  [store |-> [t EXCEPT !.products =
                              MapSet(t.products, url,
                                [row EXCEPT !.times_seen = @ + 1,
                                            !.confidence = row.confidence + ConfidenceStep])],
                  result |-> Spread(row, [dimensions |->
                                            <<row.length, row.width, row.height>>])]
        ELSE [store |-> t, result |-> JsNull]

\* A variant of the lookup below that does not look at the age of the row.
tursoGetKnownProductAnyAge(t, url, enabled, ok) ==
  LET stale == Get(t, "stale", {})
      hit == /\ enabled /\ ok
             /\ url \in DOMAIN t.products
             /\ t.products[url].confidence > ConfidenceThreshold
  IN  IF hit
        THEN LET row == t.products[url]
             IN  [store |-> [t EXCEPT !.products =
                              MapSet(t.products, url,
                                [row EXCEPT !.times_seen = @ + 1,
                                            !.confidence = Min(100, row.confidence + ConfidenceStep)])],
                  result |-> Spread(row, [dimensions |->
                                            <<row.length, row.width, row.height>>])]
        ELSE [store |-> t, result |-> JsNull]

\* TursoDatabase.getKnownProduct(url): the row of the URL when it was updated
\* within 30 days (`stale` holds the URLs whose rows are older) and has
\* confidence > 0.7; a hit is followed by UPDATE ... times_seen + 1,
\* confidence = MIN(1.0, confidence + 0.05), and the row read before it is
\* returned.  `ok`: no statement fails (a failure is caught: null).
tursoGetKnownProduct(t, url, enabled, ok) ==
  LET stale == Get(t, "stale", {})
      hit == /\ enabled /\ ok
             /\ url \in DOMAIN t.products
             /\ url \notin stale
             /\ t.products[url].confidence > ConfidenceThreshold
  IN  IF hit
        THEN LET row == t.products[url]
             IN  [store |-> [t EXCEPT !.products =
                              MapSet(t.products, url,
                                [row EXCEPT !.times_seen = @ + 1,
                                            !.confidence = Min(100, row.confidence + ConfidenceStep)])],
                  result |-> Spread(row, [dimensions |->
                                            <<row.length, row.width, row.height>>])]
        ELSE [store |-> t, result |-> JsNull]

\* `weight || 999999`, the maximum written for a first product without one.
NoMaximum == 999999

\* A variant of the update below that writes the count it read.
updateCategoryPatternsStuck(patterns, category, dimensions, weight, price) ==
  LET or(x, y) == IF Truthy(x) THEN x ELSE y
      side(i) == IF dimensions = nullDims THEN nullNum ELSE dimensions[i]
      \* ((avg * count) + (x || avg)) / newCount
      mean(avg, count, x) ==
        IF Truthy(x) THEN [num |-> avg.num * count + x * avg.den,
                           den |-> avg.den * (count + 1)]
        ELSE avg
  IN  IF category = null THEN patterns
      ELSE IF category \notin DOMAIN patterns
        THEN MapSet(patterns, category,
               [avg_weight |-> [num |-> or(weight, 0), den |-> 1],
                avg_length |-> [num |-> or(side(1), 0), den |-> 1],
                avg_width |-> [num |-> or(side(2), 0), den |-> 1],
                avg_height |-> [num |-> or(side(3), 0), den |-> 1],
                min_weight |-> or(weight, 0),
                max_weight |-> or(weight, NoMaximum),
                min_price |-> or(price, 0),
                max_price |-> or(price, NoMaximum),
                sample_count |-> 1])
        ELSE LET pattern == patterns[category]
                 count == pattern.sample_count
             IN  MapSet(patterns, category,
                   [avg_weight |-> mean(pattern.avg_weight, count, weight),
                    avg_length |-> mean(pattern.avg_length, count, side(1)),
                    avg_width |-> mean(pattern.avg_width, count, side(2)),
                    avg_height |-> mean(pattern.avg_height, count, side(3)),
                    min_weight |-> Min(pattern.min_weight, or(weight, pattern.min_weight)),
                    max_weight |-> Max(pattern.max_weight, or(weight, pattern.max_weight)),
                    min_price |-> Min(pattern.min_price, or(price, pattern.min_price)),
                    max_price |-> Max(pattern.max_price, or(price, pattern.max_price)),
                    sample_count |-> count])

\* TursoDatabase.updateCategoryPatterns: the category_patterns table after the
\* INSERT of a first row or the UPDATE of the row there is (averages as
\* exact quotients).
updateCategoryPatterns(patterns, category, dimensions, weight, price) ==
  LET or(x, y) == IF Truthy(x) THEN x ELSE y
      side(i) == IF dimensions = nullDims THEN nullNum ELSE dimensions[i]
      \* ((avg * count) + (x || avg)) / newCount
      mean(avg, count, x) ==
        IF Truthy(x) THEN [num |-> avg.num * count + x * avg.den,
                           den |-> avg.den * (count + 1)]
        ELSE avg
  IN  IF category = null THEN patterns
      ELSE IF category \notin DOMAIN patterns
        THEN MapSet(patterns, category,
               [avg_weight |-> [num |-> or(weight, 0), den |-> 1],
                avg_length |-> [num |-> or(side(1), 0), den |-> 1],
                avg_width |-> [num |-> or(side(2), 0), den |-> 1],
                avg_height |-> [num |-> or(side(3), 0), den |-> 1],
                min_weight |-> or(weight, 0),
                max_weight |-> or(weight, NoMaximum),
                min_price |-> or(price, 0),
                max_price |-> or(price, NoMaximum),
                sample_count |-> 1])
        ELSE LET pattern == patterns[category]
                 count == pattern.sample_count
             IN  MapSet(patterns, category,
                   [avg_weight |-> mean(pattern.avg_weight, count, weight),
                    avg_length |-> mean(pattern.avg_length, count, side(1)),
                    avg_width |-> mean(pattern.avg_width, count, side(2)),
                    avg_height |-> mean(pattern.avg_height, count, side(3)),
                    min_weight |-> Min(pattern.min_weight, or(weight, pattern.min_weight)),
                    max_weight |-> Max(pattern.max_weight, or(weight, pattern.max_weight)),
                    min_price |-> Min(pattern.min_price, or(price, pattern.min_price)),
                    max_price |-> Max(pattern.max_price, or(price, pattern.max_price)),
                    sample_count |-> count + 1])

\* The products TursoDatabase is asked to save: those of SavedProducts and a
\* scraped one whose dimensions were not found (confidence 0.8).
KnownProducts ==
  SavedProducts("turso")
    \cup {[url |-> u, name |-> ApifyTitle,
           retailer |-> detectRetailer("enhanced", u), category |-> "Furniture",
           price |-> 120, weight |-> 20, dimensions |-> nullDims,
           image |-> "https://img.example/apify.jpg",
           scrapingMethod |-> "apify"] : u \in URLs}

\* tursoDatabase.saveProduct(product): the row is written afresh and the
\* pattern of the category updated; `put` keeps the call.
TursoPut ==
  /\ Get(turso, "puts", 0) < MaxPuts
  /\ \E product \in KnownProducts, ok \in BOOLEAN :
       LET t == TursoSaveProduct(turso, product, ok)
           patterns == Get(turso, "patterns", EmptyMap)
       IN  turso' = [products |-> t.products,
                     patterns |-> IF ok
                                    THEN updateCategoryPatterns(patterns,
                                           product.category, product.dimensions,
                                           product.weight, product.price)
                                    ELSE patterns,
                     stale |-> IF ok THEN Get(turso, "stale", {}) \ {product.url}
                               ELSE Get(turso, "stale", {}),
                     puts |-> Get(turso, "puts", 0) + 1,
                     gets |-> Get(turso, "gets", 0),
                     put |-> [product |-> product, ok |-> ok],
                     got |-> Idle]
  /\ UNCHANGED <<config, store, req, last, ops, est, cls, batch, hist, smart>>

\* tursoDatabase.getKnownProduct(url) is called; `got` keeps the call, the
\* row it found and what it returned.
TursoGet ==
  /\ Get(turso, "gets", 0) < MaxGets
  /\ \E url \in URLs, enabled \in BOOLEAN, ok \in BOOLEAN :
       LET r == tursoGetKnownProduct(turso, url, enabled, ok)
       IN  turso' = [products |-> r.store.products,
                     patterns |-> Get(turso, "patterns", EmptyMap),
                     put |-> Idle,
                     stale |-> Get(turso, "stale", {}),
                     puts |-> Get(turso, "puts", 0),
                     gets |-> Get(turso, "gets", 0) + 1,
                     got |-> [url |-> url, enabled |-> enabled, ok |-> ok,
                              before |-> turso.products,
                              old |-> url \in Get(turso, "stale", {}),
                              result |-> r.result]]
  /\ UNCHANGED <<config, store, req, last, ops, est, cls, batch, hist, smart>>

\* Thirty days pass: the rows written so far are no longer recent.
Elapse ==
  /\ Get(turso, "stale", {}) # DOMAIN turso.products
  /\ turso' = [products |-> turso.products,
               patterns |-> Get(turso, "patterns", EmptyMap),
               put |-> Idle,
               stale |-> DOMAIN turso.products,
               puts |-> Get(turso, "puts", 0),
               gets |-> Get(turso, "gets", 0),
               got |-> Idle]
  /\ UNCHANGED <<config, store, req, last, ops, est, cls, batch, hist, smart>>

NextKnown == TursoPut \/ TursoGet \/ Elapse

SpecKnown == Init /\ [][NextKnown]_vars

\* ------------------------------------------------- saves in parallel
\* saveProduct calls of the learning system that are in flight together, as
\* the resolutions of one group make them.  `hist` holds a call with the
\* stage it has reached: "issued" (awaiting db.execute), "failed" (the
\* statement was rejected, the catch block is due) or "done".
MaxCalls == 2

\* saveProduct is entered: with a database it runs to `await db.execute`,
\* without one it sets the Map and returns, in one turn of the event loop.
Call ==
  /\ Len(hist) < MaxCalls
  /\ \E product \in SavedProducts("learning"), db \in BOOLEAN :
       LET st == IF db THEN StoreNow ELSE saveProduct(StoreNow, product, FALSE)
       IN  /\ memProducts' = st.mem
           /\ dbProducts' = st.db
           /\ insights' = st.insights
           /\ hist' = Append(hist, [product |-> product,
                                    stage |-> IF db THEN "issued" ELSE "done"])
  /\ UNCHANGED <<config, scrapingResults, dbScrapingResults, req, last, ops, est,
                 cls, turso, batch, smart>>

\* The database runs one of the statements awaited, whichever, or rejects it.
Execute ==
  /\ \E i \in 1 .. Len(hist), ok \in BOOLEAN :
       /\ hist[i].stage = "issued"
       /\ LET st == IF ok THEN saveProduct(StoreNow, hist[i].product, TRUE)
                    ELSE StoreNow
          IN  /\ memProducts' = st.mem
              /\ dbProducts' = st.db
              /\ insights' = st.insights
       /\ hist' = [hist EXCEPT ![i].stage = IF ok THEN "done" ELSE "failed"]
  /\ UNCHANGED <<config, scrapingResults, dbScrapingResults, req, last, ops, est,
                 cls, turso, batch, smart>>

\* The catch block of a rejected statement has run, and the call goes on to
\* set the Map.
Recover ==
  /\ \E i \in 1 .. Len(hist) :
       /\ hist[i].stage = "failed"
       /\ LET st == saveProduct(StoreNow, hist[i].product, FALSE)
          IN  /\ memProducts' = st.mem
              /\ dbProducts' = st.db
              /\ insights' = st.insights
       /\ hist' = [hist EXCEPT ![i].stage = "done"]
  /\ UNCHANGED <<config, scrapingResults, dbScrapingResults, req, last, ops, est,
                 cls, turso, batch, smart>>

NextConc == Call \/ Execute \/ Recover

SpecConc == Init /\ [][NextConc]_vars

\* ------------------------------------------------- the scrape log filled
\* recordScrapingResult called again and again, up to MaxBeyond calls past
\* the cap of the log.  `hist` holds the arguments of the calls, in order,
\* and `ops` counts the calls made one by one.  A request for many URLs
\* records one attempt after the other; what such a run records does not
\* matter to the trimming, so its attempts come in a fixed rotation (one in
\* three finds nothing, one a name and a price, one a name only, on two
\* URLs in turn), while an attempt made alone is chosen freely; the single
\* attempts follow the runs.
MaxBeyond == 2
MaxSingles == 3
BurstLen == 27

Attempts ==
  {JsNull, [name |-> "Oak Chair", price |-> 120], [name |-> "Oak Chair"]}

\* The arguments of a call: url, retailer, result, method.
CallOf(url, result) ==
  [url |-> url, retailer |-> detectRetailer(variant, url), result |-> result,
   method |-> IF IsNull(result) THEN "fallback" ELSE "scrapingbee"]

Rotation(n) ==
  CallOf(IF n % 2 = 0 THEN AmazonChairUrl ELSE LowesUrl,
         IF n % 3 = 0 THEN JsNull
         ELSE IF n % 3 = 1 THEN [name |-> "Oak Chair", price |-> 120]
         ELSE [name |-> "Oak Chair"])

\* The store after the calls of a sequence from the i-th on, made in order
\* (no database).
RECURSIVE RecordAll(_, _, _)
RecordAll(st, calls, i) ==
  IF i > Len(calls) THEN st
  ELSE RecordAll(recordScrapingResult(st, calls[i].url, calls[i].retailer,
                                      calls[i].result, calls[i].method, FALSE),
                 calls, i + 1)

Recording(calls) ==
  /\ Len(hist) + Len(calls) <= ScrapeLogCap + MaxBeyond
  /\ LET st == RecordAll(StoreNow, calls, 1)
     IN  /\ scrapingResults' = st.log
         /\ insights' = st.insights
  /\ hist' = hist \o calls
  /\ UNCHANGED <<config, memProducts, dbProducts, dbScrapingResults, req, last,
                 est, cls, turso, batch, smart>>

\* One attempt is recorded.
Record ==
  /\ ops < MaxSingles
  /\ \E result \in Attempts :
       Recording(<< CallOf(Rotation(Len(hist)).url, result) >>)
  /\ ops' = ops + 1

\* The attempts of a request for BurstLen URLs are recorded.
Burst ==
  /\ ops = 0
  /\ Recording([i \in 1 .. BurstLen |-> Rotation(Len(hist) + i - 1)])
  /\ ops' = ops

NextLog == Record \/ Burst

\* The log is filled in each revision, outside TEST_MODE (where the test
\* revision records nothing); the credentials play no part in it.
InitLog == Init /\ ~testMode /\ \A p \in Providers : ~env[p]

SpecLog == InitLog /\ [][NextLog]_vars

\* ----------------------------------------------- the estimate applied
\* What a provider extracted of one product: its weight and dimensions are
\* found or not.
Extracts ==
  {[url |-> AmazonChairUrl, name |-> ApifyTitle, price |-> 120,
    image |-> Placeholder, retailer |-> "Amazon", category |-> "Furniture",
    weight |-> w, dimensions |-> d, shippingCost |-> 0,
    scrapingMethod |-> "apify"] :
     w \in {nullNum, 12}, d \in {nullDims, <<30, 20, 10>>}}

\* What getSmartEstimation may answer: null, an estimate, or the estimate
\* made of averages over no positive sample (all zero).
Estimates ==
  {JsNull,
   [weight |-> 45, dimensions |-> <<32, 24, 30>>, confidence |-> 70,
    source |-> "turso_similar_products"],
   [weight |-> 0, dimensions |-> <<0, 0, 0>>, confidence |-> 70,
    source |-> "turso_similar_products"]}

\* The Product each revision makes of the extracted data and the estimate:
\* "test" asks for no estimate in TEST_MODE, and "bee_ai" never asks.
Enhanced(data, ai) ==
  CASE variant = "enhanced" ->
         ResultEnhanced(data.url, data.retailer, data, data.scrapingMethod,
                        data.category, ai)
    [] variant = "selectors" -> FillSelectors(data, ai)
    [] variant = "test" -> FillTest(data, IF testMode THEN JsNull ELSE ai)
    [] OTHER -> ResultBeeAI(data.url, data.retailer, data, data.scrapingMethod,
                            data.category)

\* The step of scrapeProductData between the ladder and the writes, with
\* the answer of getSmartEstimation as an input.
Enhance ==
  /\ IsIdle(smart)
  /\ \E data \in Extracts, ai \in Estimates :
       smart' = [data |-> data, ai |-> ai, product |-> Enhanced(data, ai)]
  /\ UNCHANGED <<config, store, req, last, ops, est, cls, turso, batch, hist>>

NextFill == Enhance

SpecFill == Init /\ [][NextFill]_vars

\* What the call of provider p returns in revision v (null when it throws or
\* finds nothing).
ProviderReturn(v, p, url, kind) ==
  CASE p = "apify" -> ApifyScrapeProduct(kind).data
    [] p = "upcitemdb" -> searchByName(kind)
    [] v = "enhanced" -> ScrapingBeeInline(kind).data
    [] v = "selectors" -> scrapeWithScrapingBee(url, kind).data
    [] v = "test" -> AdaptiveScrapeProduct(url, kind).data
    [] OTHER -> scrapeWithScrapingBeeAI(kind)

\* ------------------------------------------- one resolution, call by call
\* The resolution of Spec taken apart at its awaits: `req` also holds the
\* position of the provider call in flight (0 when none is) and the
\* providers asked so far.
MaxResolutions == 1

\* Whether the call of provider p carries a deadline: the axios requests to
\* ScrapingBee (timeout: 30000) and UPCitemdb (timeout: 10000) do;
\* client.actor('apify/web-scraper').call(input) is given none and waits
\* for the run to finish (the waitForFinish({waitSecs: 60}) that follows it
\* returns at its deadline rather than failing).
HasTimer(p) == p # "apify"

\* The first position of the ladder from `from` on whose provider passes the
\* credential test, 0 when there is none.
NextCall(from) ==
  LET order == ProviderOrder(variant)
      open == {i \in from .. Len(order) : IsAvailable(variant, order[i])}
  IN  IF open = {} THEN 0 ELSE CHOOSE i \in open : \A j \in open : i <= j

\* The record the lookup that opens a resolution finds.
Found(r) ==
  IF variant = "bee_ai" THEN JsNull ELSE getKnownProduct(r.url, r.dbGet)

\* Whether the resolution is answered from the store, without the ladder.
Served(r) == ~IsNull(Found(r)) /\ ~(variant = "test" /\ testMode)

\* scrapeProductData is entered and runs to its first provider call.
Begin ==
  /\ ops < MaxResolutions
  /\ IsIdle(req)
  /\ ~MockMode
  /\ \E url \in URLs : \E answer \in Answers(url) :
       LET first == IF Served(answer) THEN 0 ELSE NextCall(1)
       IN  req' = Spread(answer,
                    [flight |-> first,
                     asked |-> IF first = 0 THEN << >>
                               ELSE <<ProviderOrder(variant)[first]>>])
  /\ last' = Idle
  /\ UNCHANGED <<config, store, ops, aside>>

\* The deadline of the call in flight passes: the request is aborted and
\* its promise will reject.
Expire ==
  /\ ~IsIdle(req) /\ "flight" \in DOMAIN req /\ req.flight # 0
  /\ HasTimer(ProviderOrder(variant)[req.flight])
  /\ req.kind[ProviderOrder(variant)[req.flight]] # "timeout"
  /\ req' = [req EXCEPT !.kind[ProviderOrder(variant)[req.flight]] = "timeout"]
  /\ UNCHANGED <<config, store, last, ops, aside>>

\* The call in flight has been failed by its deadline.
Expired ==
  /\ ~IsIdle(req) /\ "flight" \in DOMAIN req /\ req.flight # 0
  /\ req.kind[ProviderOrder(variant)[req.flight]] = "timeout"

\* The awaited promise settles and the function runs on: to the next
\* provider call when the product is still wanting and a provider is left,
\* else to its end, where the Product is built, stored and returned.
Proceed ==
  /\ ~IsIdle(req) /\ "flight" \in DOMAIN req
  /\ LET order == ProviderOrder(variant)
         got == req.flight # 0
                  /\ HasName(ProviderReturn(variant, order[req.flight], req.url,
                                            req.kind[order[req.flight]]))
         next == IF req.flight = 0 \/ got THEN 0 ELSE NextCall(req.flight + 1)
     IN  IF next # 0
           THEN /\ req' = [req EXCEPT !.flight = next,
                                      !.asked = Append(@, order[next])]
                /\ UNCHANGED <<config, store, last, ops, aside>>
           ELSE Respond(IF variant = "bee_ai"
                          THEN getKnownProduct(req.url, TRUE) ELSE Found(req),
                        Resolution(req.url, req,
                          [known |-> Found(req),
                           fromMemory |-> ~(req.dbGet /\ req.url \in DOMAIN dbProducts)]))

NextLive == Begin \/ Expire \/ Proceed

\* The continuation of the function is due: it awaits no provider, or the
\* call it awaits has been failed by its deadline.
Due == ~IsIdle(req) /\ "flight" \in DOMAIN req /\ (req.flight = 0 \/ Expired)

\* A timer that was set fires, and the event loop runs a continuation that
\* is due; nothing obliges a provider to answer.  The second condition is
\* WF_vars(Due /\ Proceed) written out, Due being when that step is enabled.
Fairness ==
  /\ WF_vars(Expire)
  /\ ([]<>(~Due) \/ []<><<Due /\ Proceed>>_vars)

SpecLive == Init /\ [][NextLive]_vars /\ Fairness

\* ---------------------------------------------------------------- claims
\* A resolution has completed and `last` holds it.
Done == ~IsIdle(last)

\* The extracted fields of a product.
Extracted(product) ==
  <<Get(product, "name", null), Get(product, "price", nullNum),
    Get(product, "image", null), Get(product, "weight", nullNum),
    Get(product, "dimensions", nullDims)>>

\* seq lists some of the elements of order, in the order of order.
InOrder(seq, order) ==
  \E pos \in [1 .. Len(seq) -> 1 .. Len(order)] :
    /\ \A i \in 1 .. Len(seq) : order[pos[i]] = seq[i]
    /\ \A i, j \in 1 .. Len(seq) : i < j => pos[i] < pos[j]

\* Every known provider of the running revision is unavailable.
NoneAvailable == \A p \in Providers : Known(variant, p) => ~IsAvailable(variant, p)

\* C1: resolveProduct never fails: whatever the URL, the provider outcomes and
\* the store outcomes, the call completes with a Product and no rejection
\* reaches the caller.
C1_NeverFails == Done => last.out.status = "fulfilled"

\* C2: within one resolution the providers are invoked in the fixed priority
\* order, no provider is invoked after one has returned a product with a
\* non-empty name, and the extracted fields of the returned record are those
\* of one provider's product (or all the fallback's), never a merge.
C2_FirstSuccessWins ==
  (Done /\ ~last.out.cached) =>
    LET c == last.out.calls
        ret(i) == ProviderReturn(variant, c[i], last.url, last.kind[c[i]])
    IN  /\ InOrder(c, ProviderOrder(variant))
        /\ \A i \in 1 .. Len(c) - 1 : ~HasName(ret(i))
        /\ \/ \E i \in 1 .. Len(c) : /\ ~IsNull(ret(i))
                                     /\ Extracted(last.out.value) = Extracted(ret(i))
           \/ /\ last.out.value.scrapingMethod = "fallback"
              /\ last.out.value.price = nullNum
              /\ last.out.value.weight = nullNum
              /\ last.out.value.dimensions = nullDims

\* C2, its case: Apify threw, ScrapingBee delivered, and UPCitemdb, available
\* and able to deliver, was not asked.
C2_Witness ==
  /\ Done /\ variant = "enhanced"
  /\ last.out.calls = <<"apify", "scrapingbee">>
  /\ env["upcitemdb"] /\ last.kind["upcitemdb"] = "full"
  /\ last.out.value.name = BeeTitle

\* C3: a provider that reports itself unavailable is never invoked, and a
\* resolution that skipped every provider still completes with a Product.
C3_UnavailableSkipped ==
  Done =>
    /\ \A i \in 1 .. Len(last.out.calls) :
         \/ env[last.out.calls[i]]
         \/ variant = "bee_ai" /\ last.out.calls[i] = "scrapingbee"
    /\ NoneAvailable => /\ last.out.calls = << >>
                        /\ last.out.status = "fulfilled"

\* C3, its case: Apify has no token, is skipped, and ScrapingBee is invoked.
C3_Witness ==
  /\ Done /\ ~env["apify"] /\ env["scrapingbee"]
  /\ last.out.calls = <<"scrapingbee">>
  /\ last.out.status = "fulfilled"
  /\ last.out.value.scrapingMethod \in {"scrapingbee", "Adaptive"}

\* What the providers of the last resolution return, by provider.
Returned(p) == ProviderReturn(variant, p, last.url, last.kind[p])

\* Provider p is available and its call returns a product with a name.
Delivers(p) == IsAvailable(variant, p) /\ HasName(Returned(p))

\* C4: when a provider throws or returns nothing with a name, the resolution
\* goes on to the next available provider: the first provider, in priority
\* order, that is available and returns a named product is invoked, and the
\* Product carries its data, not the fallback's.
C4_ContinuesPastFailure ==
  (Done /\ ~last.out.cached) =>
    \A i \in 1 .. Len(ProviderOrder(variant)) :
      LET p == ProviderOrder(variant)[i]
      IN  (Delivers(p) /\ \A j \in 1 .. i - 1 : ~Delivers(ProviderOrder(variant)[j]))
            => /\ \E k \in 1 .. Len(last.out.calls) : last.out.calls[k] = p
               /\ Extracted(last.out.value) = Extracted(Returned(p))
               /\ last.out.value.scrapingMethod # "fallback"

\* C4, its case: Apify threw, ScrapingBee found no title, and the Product is
\* UPCitemdb's.
C4_Witness ==
  /\ Done /\ variant = "enhanced"
  /\ last.kind["apify"] = "throw" /\ last.kind["scrapingbee"] = "empty"
  /\ last.out.calls = <<"apify", "scrapingbee", "upcitemdb">>
  /\ last.out.value.name = UpcTitle
  /\ last.out.value.scrapingMethod = "upcitemdb"

\* The shipping cost c, in cents, lies in the configured range.
InRange(c) == MinShipping * 100 <= c /\ c <= MaxShipping * 100

\* C5: without a cache hit and with every provider unavailable or failing,
\* the resolution returns a Product named "Product from {retailer}" with the
\* placeholder image, null price, weight and dimensions, scrapingMethod
\* "fallback", needsPriceConfirmation true and a shipping cost in the range.
C5_FallbackProduct ==
  (Done /\ ~last.out.cached /\ \A p \in Providers : ~Delivers(p)) =>
    /\ last.out.status = "fulfilled"
    /\ last.out.value.name = "Product from " \o last.out.value.retailer
    /\ last.out.value.image \in {Placeholder, PlaceholderImport}
    /\ last.out.value.price = nullNum
    /\ last.out.value.weight = nullNum
    /\ last.out.value.dimensions = nullDims
    /\ last.out.value.scrapingMethod = "fallback"
    /\ Get(last.out.value, "needsPriceConfirmation", FALSE)
    /\ InRange(last.out.value.shippingCost)

\* C6: every Product returned, on a cache hit, a provider success or
\* fallback, has a non-null name, image, category and shippingCost.
C6_NonNullFields ==
  (Done /\ last.out.status = "fulfilled") =>
    /\ Get(last.out.value, "name", null) # null
    /\ Get(last.out.value, "image", null) # null
    /\ Get(last.out.value, "category", null) # null
    /\ Get(last.out.value, "shippingCost", nullNum) # nullNum

\* C7: when the store holds a high-confidence Product for the URL, the
\* resolution returns it tagged as a cache result and invokes no provider.
C7_HighConfidenceServed ==
  (Done /\ ~IsNull(last.known)
        /\ Get(last.known, "confidence", 0) > ConfidenceThreshold) =>
    /\ last.out.cached
    /\ last.out.calls = << >>
    /\ last.out.value.scrapingMethod \in {"cache", "ai_cache"}

\* C8: a stored Product is served only if its confidence is above the
\* threshold; a record at or below it, such as the fallback record saved
\* after every provider failed, is not returned: the providers are tried.
C8_LowConfidenceRetried ==
  (Done /\ ~IsNull(last.known)
        /\ \/ Get(last.known, "confidence", 0) <= ConfidenceThreshold
           \/ Get(last.known, "scrapingMethod", null) = "fallback") =>
    ~last.out.cached

\* C9: every shipping cost the estimator produces lies between the
\* configured floor and ceiling.
C9_WithinRange ==
  ~IsIdle(est) => \A i \in 1 .. Len(est.outs) : InRange(est.outs[i])

RuleCategories(rules) == {rules[i][1] : i \in 1 .. Len(rules)}

\* The closed category enumeration of the running revision: the categories
\* of its classifier's rules and the classifier's default.
CategoryEnumeration ==
  CASE variant = "enhanced" -> RuleCategories(CategoryRules) \cup {"General Merchandise"}
    [] variant = "selectors" -> RuleCategories(DetermineRules) \cup {"General Merchandise"}
    [] variant = "test" -> RuleCategories(GuessRules) \cup {"General"}
    [] OTHER -> RuleCategories(CategoryRulesBeeAI) \cup {"General Merchandise"}

\* C11: the category of every Product returned is a member of the closed
\* category enumeration and never null, whether it came from the classifier,
\* from a provider or from a cached record.
C11_CategoryInEnumeration ==
  (Done /\ last.out.status = "fulfilled") =>
    Get(last.out.value, "category", null) \in CategoryEnumeration

\* The rule list of classify(name, url): categorizeProduct of "enhanced" and
\* of "bee_ai".
ClassifyRules == IF variant = "enhanced" THEN CategoryRules ELSE CategoryRulesBeeAI

\* The rules that have a keyword in the text of the classified name and URL.
Matching ==
  {i \in 1 .. Len(ClassifyRules) :
     ClassifyRules[i][2] \cap (WordsOf(cls.name) \cup WordsOf(cls.url)) # {}}

\* C12: classify(name, url) returns the category of the earliest rule of the
\* fixed rule list that has a keyword in the lowercased name + URL text, also
\* when later rules match, and "General Merchandise" when no rule matches.
C12_EarliestRuleWins ==
  (~IsIdle(cls) /\ variant \in {"enhanced", "bee_ai"}) =>
    IF Matching = {} THEN cls.category = "General Merchandise"
    ELSE \E i \in Matching : /\ \A j \in Matching : i <= j
                             /\ cls.category = ClassifyRules[i][1]

\* C12, its case: "Gaming Chair" has a keyword of Furniture and one of the
\* later rule Electronics, and is Furniture.
C12_Witness ==
  /\ ~IsIdle(cls) /\ variant = "enhanced"
  /\ cls.name = GamingChairTitle /\ cls.url = LowesUrl
  /\ Cardinality(Matching) = 2
  /\ cls.category = "Furniture"

\* The saveProduct calls made on a store for a URL, by position in hist.
SavesOf(target, url) ==
  {i \in 1 .. Len(hist) : hist[i].target = target /\ hist[i].product.url = url}

\* The most recent of them.
LatestSave(target, url) ==
  hist[CHOOSE i \in SavesOf(target, url) : \A j \in SavesOf(target, url) : j <= i]

\* A record of the learning system holds the data of a saved product.
HoldsData(record, product) ==
  /\ ~IsNull(record)
  /\ record.name = Get(product, "name", null)
  /\ record.retailer = Get(product, "retailer", null)
  /\ record.category = Get(product, "category", null)
  /\ record.price = Get(product, "price", nullNum)
  /\ record.weight = Get(product, "weight", nullNum)
  /\ record.dimensions = Get(product, "dimensions", nullDims)
  /\ record.image = Get(product, "image", null)

\* A row of TursoDatabase holds the data of a saved product.
RowHoldsData(row, product) ==
  /\ row.name = product.name /\ row.retailer = product.retailer
  /\ row.category = product.category /\ row.price = product.price
  /\ row.weight = product.weight /\ row.image = product.image
  /\ <<row.length, row.width, row.height>> =
       (IF product.dimensions = nullDims THEN <<0, 0, 0>> ELSE product.dimensions)

\* C13: after any sequence of saveProduct calls the store holds at most one
\* record per URL, and it holds the data of the most recent saveProduct for
\* that URL.
C13_OneRecordPerUrl ==
  \A u \in URLs :
    /\ SavesOf("learning", u) # {} =>
         /\ ~(u \in DOMAIN dbProducts /\ u \in DOMAIN memProducts)
         /\ HoldsData(Lookup(StoreNow, u), LatestSave("learning", u).product)
    /\ (SavesOf("turso", u) # {} /\ LatestSave("turso", u).ok) =>
         /\ u \in DOMAIN turso.products
         /\ RowHoldsData(turso.products[u], LatestSave("turso", u).product)

\* The timesSeen counter of a stored record (0 when the record has none).
TimesSeen(record) == Get(record, "times_seen", Get(record, "timesSeen", 0))

\* The other fields of a stored record.
OtherFields(record) == [k \in DOMAIN record \ {"times_seen", "timesSeen"} |-> record[k]]

\* C14: saveProduct called twice with identical data for the same URL
\* increments the record's timesSeen twice (never resetting it to 1) and
\* leaves every other field as it was after the first call.
C14_TimesSeenCounts ==
  \A i \in 1 .. Len(hist) - 1 :
    (/\ hist[i].target = hist[i + 1].target
     /\ hist[i].product = hist[i + 1].product
     /\ hist[i].ok /\ hist[i + 1].ok) =>
      /\ TimesSeen(hist[i].record) >= 1
      /\ TimesSeen(hist[i + 1].record) = TimesSeen(hist[i].record) + 1
      /\ OtherFields(hist[i + 1].record) = OtherFields(hist[i].record)

\* C15: the stored confidence of a URL never decreases by a failed scrape:
\* when a resolution of a URL whose record had confidence c ends in fallback,
\* the record stored for the URL afterwards has confidence at least c.
C15_ConfidenceKept ==
  (/\ Done /\ ~IsNull(last.known)
   /\ last.out.status = "fulfilled"
   /\ Get(last.out.value, "scrapingMethod", null) = "fallback") =>
    Get(Lookup(StoreNow, last.url), "confidence", 0)
      >= Get(last.known, "confidence", 0)

\* POST /api/scrape has been answered.
Responded == ~IsIdle(batch) /\ ~IsIdle(batch.response)

\* ... with the Products of an accepted request.
Accepted == Responded /\ batch.response.status = 200

\* C16: resolveProducts returns its results in the order of the input URLs,
\* within each group and across groups, whatever the order in which the
\* resolutions complete: the Products collected so far come from ascending
\* positions of the list, and the response lists them as collected.
C16_InputOrder ==
  /\ ~IsIdle(batch) =>
       \A i, j \in 1 .. Len(batch.results) :
         i < j => batch.results[i].slot < batch.results[j].slot
  /\ (Accepted /\ ~MockMode) =>
       batch.response.products =
         [i \in 1 .. Len(batch.results) |-> batch.results[i].product]
  /\ (Accepted /\ MockMode) =>
       \A i \in 1 .. Len(batch.response.products) :
         batch.response.products[i] = MockProduct(variant, batch.body.list[i], i)

\* C16, its case: two groups were resolved, a resolution settled before one
\* of an earlier position of its group, and the response has been sent.
C16_Witness ==
  /\ Accepted /\ batch.early
  /\ Len(batch.body.list) = MaxUrls
  /\ Len(batch.response.products) = MaxUrls
  /\ batch.body.list[1] # batch.body.list[2]

\* C17: the response to an accepted request has exactly one Product per
\* requested URL, the i-th Product having the i-th URL, also when
\* resolutions faulted.
C17_OneProductPerUrl ==
  Accepted =>
    /\ Len(batch.response.products) = Len(batch.body.list)
    /\ \A i \in 1 .. Len(batch.response.products) :
         Get(batch.response.products[i], "url", null) = batch.body.list[i]

\* Positions k and j of the URL list belong to the same group.
SameGroup(k, j) == (k - 1) \div batchSize = (j - 1) \div batchSize

\* The step is the return of Promise.allSettled for a group.
Collecting == ~IsIdle(batch) /\ batch.flight = EmptyMap /\ batch.outs # << >>

C19_BoundedParallelism ==
  ~IsIdle(batch) =>
    /\ Cardinality(DOMAIN batch.flight) <= batchSize
    /\ \A j \in DOMAIN batch.flight \cup {batch.outs[n].index : n \in 1 .. Len(batch.outs)} :
         \A k \in 1 .. j - 1 :
           \/ SameGroup(k, j)
           \/ \E n \in 1 .. Len(batch.results) : batch.results[n].slot = k

\* C19, its case: the first group has been collected whole and the only
\* resolution in flight is the first of the second group.
C19_Witness ==
  /\ ~IsIdle(batch) /\ variant # "test"
  /\ Len(batch.results) = batchSize
  /\ DOMAIN batch.flight = {batchSize + 1}
  /\ batch.early

\* C20: a request whose URL list is missing, not a list, or empty is rejected
\* as invalid input before any provider is invoked and before any store
\* operation, and no Products are returned.
C20_InvalidRejectedFirst ==
  (~IsIdle(batch) /\ ~(batch.body.kind = "list" /\ batch.body.list # << >>)) =>
    /\ Get(batch.response, "status", 0) = 400
    /\ "products" \notin DOMAIN batch.response
    /\ batch.calls = 0 /\ batch.reads = 0 /\ batch.writes = 0
    /\ batch.flight = EmptyMap /\ batch.results = << >>
    /\ memProducts = EmptyMap /\ dbProducts = EmptyMap
    /\ scrapingResults = << >> /\ dbScrapingResults = << >>

\* C20, its case: the list is there and empty, and the request was refused.
C20_Witness ==
  /\ ~IsIdle(batch) /\ batch.body = [kind |-> "list", list |-> << >>]
  /\ Get(batch.response, "status", 0) = 400
  /\ batch.calls = 0 /\ batch.reads = 0

\* The cap a revision announces: 'Maximum 20 URLs allowed per request'
\* ('Maximum 50 URLs allowed' in "test").
AnnouncedCap == IF variant = "test" THEN 50 ELSE 20

\* C21: a request with more URLs than the cap is rejected, no Products are
\* returned and no provider is called, while a request with exactly the cap
\* number of URLs is accepted: it is never refused, and its response has a
\* Product for every URL.
C21_CapEnforced ==
  (~IsIdle(batch) /\ batch.body.kind = "list") =>
    /\ Len(batch.body.list) > AnnouncedCap =>
         /\ Get(batch.response, "status", 0) = 400
         /\ "products" \notin DOMAIN batch.response
         /\ batch.calls = 0 /\ batch.flight = EmptyMap /\ batch.results = << >>
    /\ Len(batch.body.list) = AnnouncedCap =>
         /\ Get(batch.response, "status", 0) # 400
         /\ Responded => /\ batch.response.status = 200
                         /\ Len(batch.response.products) = AnnouncedCap

\* C21, its case: 21 URLs where the cap is 20, refused.
C21_Witness ==
  /\ ~IsIdle(batch) /\ variant = "enhanced" /\ ~testMode
  /\ Len(batch.body.list) = 21
  /\ Get(batch.response, "status", 0) = 400
  /\ batch.calls = 0

\* The rows of the asked category and retailer whose confidence is above the
\* floor, as a set of positions of the table.
Similar ==
  {i \in 1 .. Len(smart.products) :
     /\ smart.products[i].category = "Furniture"
     /\ smart.products[i].retailer = "Amazon"
     /\ smart.products[i].confidence > 60}

\* The category-wide pattern has more than 5 samples.
PatternTrusted ==
  \E i \in 1 .. Len(smart.patterns) :
    /\ smart.patterns[i].category = "Furniture"
    /\ smart.patterns[i].sample_count > 5

\* C22: getSmartEstimation of an available store is two-tier: with more than
\* 3 products of the category and retailer above the confidence floor it
\* returns their average; otherwise, with a category pattern of more than 5
\* samples, that pattern; otherwise nothing.
C22_TwoTier ==
  (~IsIdle(smart) /\ smart.enabled) =>
    IF Cardinality(Similar) > 3
      THEN /\ ~IsNull(smart.result)
           /\ smart.result.source = "turso_similar_products"
    ELSE IF PatternTrusted
      THEN /\ ~IsNull(smart.result)
           /\ smart.result.source = "turso_category_patterns"
           /\ smart.result.weight = Frac(smart.patterns[1].avg_weight, 1)
    ELSE IsNull(smart.result)

RECURSIVE Without(_, _)
\* The samples less one occurrence of the value v.
Without(samples, v) ==
  IF samples = << >> THEN << >>
  ELSE IF Head(samples) = v THEN Tail(samples)
  ELSE <<Head(samples)>> \o Without(Tail(samples), v)

\* The least and the greatest of the samples.
Lowest(samples) ==
  CHOOSE v \in {samples[i] : i \in 1 .. Len(samples)} :
    \A i \in 1 .. Len(samples) : v <= samples[i]
Highest(samples) ==
  CHOOSE v \in {samples[i] : i \in 1 .. Len(samples)} :
    \A i \in 1 .. Len(samples) : v >= samples[i]

RECURSIVE Inner(_, _)
\* The samples less their k lowest and their k highest.
Inner(samples, k) ==
  IF k = 0 THEN samples
  ELSE LET rest == Without(samples, Lowest(samples))
       IN  Inner(Without(rest, Highest(rest)), k - 1)

\* The positive values of a column of the rows the estimation averages.
Samples(column) ==
  Column(SelectSeq(smart.products,
           LAMBDA r : /\ r.category = "Furniture" /\ r.retailer = "Amazon"
                      /\ r.confidence > 60 /\ r[column] > 0),
         column)

\* The quotient q is the plain mean of the samples.
IsMeanOf(q, samples) == q.num * Len(samples) = SumSeq(samples) * q.den

\* The similar-products tier has answered.
Averaged ==
  /\ ~IsIdle(smart) /\ ~IsNull(smart.result)
  /\ smart.result.source = "turso_similar_products"

\* C23: the estimation average is a trimmed mean: with more than 5 positive
\* samples it is the plain mean of the samples less the lowest and the
\* highest fifth (floor(0.2 * n) at each end), with 5 or fewer the plain mean
\* of them all.
C23_TrimmedMean ==
  Averaged =>
    \A column \in {"weight", "length"} :
      LET samples == Samples(column)
          n == Len(samples)
          q == IF column = "weight" THEN smart.result.weight
               ELSE smart.result.dimensions[1]
      IN  IF n = 0 THEN q.num = 0
          ELSE IF n > 5 THEN IsMeanOf(q, Inner(samples, n \div 5))
          ELSE IsMeanOf(q, samples)

\* C23, its case: 7 weights, one of them the outlier 500, and the estimate
\* is 14, the mean of the inner 5 (10, 10, 10, 20, 20), not 580 / 7.
C23_Witness ==
  /\ Averaged
  /\ Len(Samples("weight")) = 7
  /\ Highest(Samples("weight")) = 500
  /\ SumSeq(Samples("weight")) = 580
  /\ smart.result.weight.num = 14 * smart.result.weight.den

\* The step is a resolution answering its request.
Resolving == ~IsIdle(req) /\ IsIdle(req')

\* No database serves the resolution in flight: this.db is not set, or its
\* statements fail.
Unavailable == ~req.dbGet /\ ~req.dbSave /\ ~req.dbRec

\* What the resolution in flight returns against an available, empty store.
AgainstEmptyStore == Resolution(req.url, req, [known |-> JsNull, fromMemory |-> TRUE])

LookedUp ==
  [known |-> getKnownProduct(req.url, req.dbGet),
   fromMemory |-> ~(req.dbGet /\ req.url \in DOMAIN dbProducts)]

\* What the resolution in flight returns when its writes succeed.
HadPersistenceSucceeded ==
  Resolution(req.url, [req EXCEPT !.dbSave = TRUE, !.dbRec = TRUE], LookedUp)

\* C25: a failure while persisting the Product or recording the attempt is
\* swallowed: the resolution ends as it would have ended had the writes
\* succeeded, with the same Product, and the failure does not reach the
\* caller.
C25_PersistenceSwallowed ==
  [][(Resolving /\ (~req.dbSave \/ ~req.dbRec)) =>
       /\ last'.out.status = HadPersistenceSucceeded.status
       /\ last'.out.value = HadPersistenceSucceeded.value]_vars

\* C25, its case: the first resolution was saved in the table; the second,
\* of the other URL, made its writes, none reached the table, and its Product
\* was returned.
C25_Witness ==
  /\ Done /\ ops = 2
  /\ last.out.status = "fulfilled" /\ last.out.saves # << >>
  /\ DOMAIN dbProducts # {} /\ last.url \notin DOMAIN dbProducts
  /\ Len(dbScrapingResults) < Len(scrapingResults)
  /\ last.url \in DOMAIN memProducts

\* C26: in every Product returned needsPriceConfirmation is true exactly when
\* no real price was extracted or the scrapingMethod is the last-resort
\* fallback.
C26_NeedsPriceConfirmation ==
  (Done /\ last.out.status = "fulfilled") =>
    (Get(last.out.value, "needsPriceConfirmation", FALSE)
       <=> \/ ~Truthy(Get(last.out.value, "price", nullNum))
           \/ Get(last.out.value, "scrapingMethod", null) = "fallback")

\* The price the first delivering provider of the ladder extracted, null
\* when none delivers.
WinnerPrice ==
  LET order == ProviderOrder(variant)
      winners == {i \in 1 .. Len(order) : Delivers(order[i])}
  IN  IF winners = {} THEN nullNum
      ELSE Get(Returned(order[CHOOSE i \in winners : \A j \in winners : i <= j]),
               "price", nullNum)

Unpriced ==
  /\ Done /\ last.out.status = "fulfilled" /\ ~last.out.cached
  /\ ~(variant = "test" /\ testMode)
  /\ ~Truthy(WinnerPrice)

SavedHere(table) ==
  /\ last.out.saves # << >>
  /\ Get(last.out.saves[1], "url", null) = last.url
  /\ last.url \in DOMAIN table

\* C27: when no price was extracted, the default price (50) feeds the
\* shipping formula only: the price of the returned Product and the price
\* handed to the store and recorded by it stay null, no other amount of the
\* Product is computed from the default, and the shipping cost of the
\* enhanced and bee_ai revisions is the formula evaluated at 50.
C27_DefaultPriceInFormulaOnly ==
  Unpriced =>
    /\ ~Truthy(Get(last.out.value, "price", nullNum))
    /\ Get(last.out.value, "price", nullNum) # DefaultPrice
    /\ \A i \in 1 .. Len(last.out.saves) :
         ~Truthy(Get(last.out.saves[i], "price", nullNum))
    /\ (SavedHere(memProducts) /\ last.url \notin DOMAIN dbProducts)
         => ~Truthy(memProducts[last.url].price)
    /\ (SavedHere(dbProducts) /\ last.url \notin DOMAIN memProducts)
         => ~Truthy(dbProducts[last.url].price)
    /\ "landedPricing" \in DOMAIN last.out.value
         => ~Truthy(last.out.value.landedPricing.productPrice)
    /\ variant = "enhanced" =>
         last.out.value.shippingCost
           = calculateShippingCost(last.out.value.category,
               last.out.value.weight, 50, last.out.value.dimensions)
    /\ variant = "bee_ai" =>
         last.out.value.shippingCost
           = calculateShippingCostBeeAI(last.out.value.category,
               last.out.value.weight, 50, last.out.value.dimensions)

\* The credential test of provider p, read from the environment alone.
Configured(p) == env[p] \/ (variant = "bee_ai" /\ p = "scrapingbee")

\* The positions of the ladder a resolution of last.url reaches, computed
\* from the revision, the environment and what the providers answer, and
\* from nothing the store has recorded.
Asked ==
  LET order == ProviderOrder(variant)
  IN  {i \in 1 .. Len(order) :
         /\ Configured(order[i])
         /\ \A j \in 1 .. i - 1 :
              Configured(order[j]) => ~HasName(Returned(order[j]))}

\* C28: the scraping results the store has recorded never influence routing:
\* whatever the log and the insights hold, a resolution that is not answered
\* from the product store asks exactly the providers that the environment
\* and the providers' own answers determine, in the priority order.
C28_RoutingIgnoresLog ==
  (Done /\ ~last.out.cached) =>
    /\ InOrder(last.out.calls, ProviderOrder(variant))
    /\ Len(last.out.calls) = Cardinality(Asked)
    /\ \A i \in Asked :
         \E k \in 1 .. Len(last.out.calls) :
           last.out.calls[k] = ProviderOrder(variant)[i]

\* C28, its case: the second resolution of a URL ran while the log already
\* held the outcome of the first, obtained by another provider, and asked the
\* whole ladder again.
C28_Witness ==
  /\ Done /\ ops = 2 /\ ~last.out.cached
  /\ Len(scrapingResults) = 2
  /\ scrapingResults[1].url = last.url
  /\ scrapingResults[1].method = ProviderOrder(variant)[1]
  /\ scrapingResults[2].method = ProviderOrder(variant)[2]
  /\ Len(last.out.calls) >= 2
  /\ last.out.calls[1] = ProviderOrder(variant)[1]

\* The resolution in progress and whether its end has been reached.
Pending == ~IsIdle(req)

\* C29: every resolution that was started eventually completes, because
\* each provider call fails at its own deadline at the latest.
C29_Completes == Pending ~> Done

\* The estimate was applied to extracted data.
Applied == ~IsIdle(smart) /\ "data" \in DOMAIN smart

StatedNumerator(mult, weight, price, dimensions) ==
  LET given == Truthy(weight) /\ weight > 0
      \* the linear weight in thousandths of a pound
      linear == IF given THEN weight * 1000
                ELSE Max(1000, ToNumber(price) * 2 * mult)
      volume == IF HasDims(dimensions)
                  THEN dimensions[1] * dimensions[2] * dimensions[3] ELSE 0
      surcharge == IF HasDims(dimensions) /\ 1000 * volume > 166 * linear
                     THEN ((1000 * volume - 166 * linear) * 15) \div 2
                     ELSE 0
      byPrice == IF ToNumber(price) > 100
                   THEN Min(ToNumber(price) * 5, 5000) * 8300
                   ELSE 0
  IN  15 * mult * 83000 + linear * 25 * 83 + surcharge + byPrice

\* The estimator of "enhanced" or "bee_ai" was evaluated.
Estimated == ~IsIdle(est) /\ variant \in {"enhanced", "bee_ai"}

\* C31: the estimator adds the dimensional-weight surcharge exactly when
\* length*width*height/166 exceeds the linear weight it charged for (the
\* given weight, or the estimated one), and the surcharge is the excess at
\* 1.5 per pound.
C31_DimensionalSurcharge ==
  Estimated =>
    est.outs[1]
      = RoundToCents(StatedNumerator(
          IF variant = "enhanced" THEN CategoryMultiplier(est.input.category)
          ELSE CategoryMultiplierBeeAI(est.input.category),
          est.input.weight, est.input.price, est.input.dimensions))

\* Two saveProduct calls were in flight together and both have returned.
BothReturned ==
  /\ Len(hist) = 2
  /\ hist[1].stage = "done" /\ hist[2].stage = "done"

\* The records the store holds for a URL, of either tier.
RecordsOf(u) ==
  (IF u \in DOMAIN dbProducts THEN {dbProducts[u]} ELSE {})
    \cup (IF u \in DOMAIN memProducts THEN {memProducts[u]} ELSE {})

\* C32: after two concurrent saveProduct calls, under every interleaving:
\* for different URLs both records exist, each holding the data of its own
\* call; for the same URL exactly one record exists, holding the data of one
\* of the calls.
C32_ConcurrentSaves ==
  BothReturned =>
    LET a == hist[1].product
        b == hist[2].product
    IN  IF a.url # b.url
          THEN /\ RecordsOf(a.url) # {} /\ RecordsOf(b.url) # {}
               /\ \A r \in RecordsOf(a.url) : HoldsData(r, a)
               /\ \A r \in RecordsOf(b.url) : HoldsData(r, b)
          ELSE /\ ~(a.url \in DOMAIN dbProducts /\ a.url \in DOMAIN memProducts)
               /\ \E r \in RecordsOf(a.url) : HoldsData(r, a) \/ HoldsData(r, b)

\* The URLs the learning store holds a product record for, in either tier.
HasRecord == DOMAIN dbProducts \cup DOMAIN memProducts

\* C33: the learning store is append/update-only: a URL that has a product
\* record has one in every later state, whatever resolutions, saves,
\* recordings and lookups follow.
C33_NeverDeleted ==
  [][/\ DOMAIN dbProducts \subseteq DOMAIN dbProducts'
     /\ DOMAIN memProducts \subseteq DOMAIN memProducts']_vars

\* C33, its case: after the product of one URL was recorded, another URL was
\* resolved and saved, and the store holds records for both.
C33_Witness ==
  /\ Done /\ ops = 2
  /\ Len(scrapingResults) = 2 /\ scrapingResults[1].url # last.url
  /\ last.out.saves # << >>
  /\ HasRecord = URLs

\* The confidences of the product records the stores hold, in hundredths.
Confidences ==
  {dbProducts[u].confidence : u \in DOMAIN dbProducts}
    \cup {memProducts[u].confidence : u \in DOMAIN memProducts}
    \cup {turso.products[u].confidence : u \in DOMAIN turso.products}

\* C34: the confidence of every stored product record stays within [0, 1]
\* after any sequence of saveProduct calls and cache hits.
C34_ConfidenceInRange == \A c \in Confidences : 0 <= c /\ c <= 100

\* The last call of TursoDatabase.getKnownProduct, when it was a hit.
Hit == "got" \in DOMAIN turso /\ ~IsIdle(turso.got) /\ ~IsNull(turso.got.result)

\* C34, its case: a hit on a row whose confidence was already 1.0 left it
\* at 1.0.
C34_Witness ==
  /\ Hit
  /\ turso.got.before[turso.got.url].confidence = 100
  /\ turso.products[turso.got.url].confidence = 100
  /\ turso.products[turso.got.url].times_seen
       = turso.got.before[turso.got.url].times_seen + 1

\* The tag under which the running revision reports the data of provider p.
TagOf(p) ==
  CASE p = "apify" -> IF variant = "test" THEN "Apify" ELSE "apify"
    [] p = "upcitemdb" -> "upcitemdb"
    [] variant = "test" -> "Adaptive"
    [] variant = "bee_ai" -> "scrapingbee_ai"
    [] OTHER -> "scrapingbee"

\* The tags of a Product served from the store.
CacheTags == {"cache", "ai_cache"}

\* Provider p was invoked in the last resolution.
WasInvoked(p) == \E k \in 1 .. Len(last.out.calls) : last.out.calls[k] = p

\* C35: the scrapingMethod of a returned Product identifies the source of
\* its data: it names a provider only if that provider was invoked and
\* returned the data of the record, it is the cache tag only on a cache hit,
\* and it is "fallback" exactly when no provider that was invoked produced a
\* named product and there was no cache hit.
C35_MethodIdentifiesSource ==
  (Done /\ last.out.status = "fulfilled") =>
    LET method == Get(last.out.value, "scrapingMethod", null)
    IN  /\ \A p \in Providers :
             (Known(variant, p) /\ method = TagOf(p)) =>
               /\ WasInvoked(p)
               /\ ~IsNull(Returned(p))
               /\ Extracted(last.out.value) = Extracted(Returned(p))
        /\ method \in CacheTags => last.out.cached
        /\ method = "fallback"
             <=> /\ ~last.out.cached
                 /\ \A p \in Providers : WasInvoked(p) => ~HasName(Returned(p))

\* The category_patterns table of the Turso store, now and after a step.
PatternsNow == Get(turso, "patterns", EmptyMap)
PatternsNext == Get(turso', "patterns", EmptyMap)

\* The step is a successful saveProduct of a product of category c.
PutsInto(c) ==
  /\ "put" \in DOMAIN turso' /\ ~IsIdle(turso'.put)
  /\ turso'.put.ok /\ turso'.put.product.category = c

CacheHit == Resolving /\ last'.out.cached

\* C37: a resolution answered from the cache calls neither saveProduct nor
\* recordScrapingResult and leaves the stored records, the scrape log and
\* the insights counters as they were.
C37_CacheHitWritesNothing ==
  [][CacheHit =>
       /\ last'.out.saves = << >> /\ last'.out.records = << >>
       /\ UNCHANGED store]_vars

\* The step is a POST /api/update-price answered.
UpdatingPrice == variant = "bee_ai" /\ IsIdle(req) /\ IsIdle(req') /\ ops' = ops + 1

\* The record the learning store holds for a URL: the row of the table when
\* it has one, else the Map's (getKnownProduct reads in this order).
RecordOf(db, mem, u) == IF u \in DOMAIN db THEN db[u] ELSE mem[u]

Got == "got" \in DOMAIN turso /\ ~IsIdle(turso.got)

\* C39: TursoDatabase.getKnownProduct returns a record only for a row of the
\* URL updated within the last 30 days with confidence above 0.7; such a
\* hit adds one to the row's times_seen and 0.05 to its confidence, capped
\* at 1.0; a miss, or a disabled store, returns null and changes nothing.
C39_KnownProductLookup ==
  Got =>
    LET g == turso.got
        u == g.url
    IN  /\ Hit =>
             /\ g.enabled
             /\ u \in DOMAIN g.before /\ ~g.old
             /\ g.before[u].confidence > ConfidenceThreshold
             /\ g.result.name = g.before[u].name
             /\ g.result.price = g.before[u].price
             /\ DOMAIN turso.products = DOMAIN g.before
             /\ turso.products[u].times_seen = g.before[u].times_seen + 1
             /\ turso.products[u].confidence
                  = Min(100, g.before[u].confidence + ConfidenceStep)
             /\ \A v \in DOMAIN g.before \ {u} : turso.products[v] = g.before[v]
        /\ ~Hit => turso.products = g.before
        /\ ~g.enabled => ~Hit

\* C39, its case: a hit on a row at confidence 0.8 seen once, which is at
\* 0.85 and seen twice afterwards.
C39_Witness ==
  /\ Hit
  /\ turso.got.before[turso.got.url].confidence = 80
  /\ turso.got.before[turso.got.url].times_seen = 1
  /\ turso.products[turso.got.url].confidence = 85
  /\ turso.products[turso.got.url].times_seen = 2

\* The entry recordScrapingResult pushes for a call.
EntryOf(call) ==
  [url |-> call.url, retailer |-> call.retailer, method |-> call.method,
   success |-> ~IsNull(call.result) /\ "name" \in DOMAIN call.result,
   priceFound |-> ~IsNull(call.result) /\ "price" \in DOMAIN call.result]

\* C40: the in-memory scrape log never holds more than 1000 entries; after n
\* calls of recordScrapingResult it holds the most recent min(n, 1000)
\* attempts in call order, and insights.totalScrapes is its length.
C40_LogKeepsMostRecent ==
  LET n == Len(hist)
      kept == Len(scrapingResults)
  IN  /\ kept <= ScrapeLogCap
      /\ kept = Min(n, ScrapeLogCap)
      /\ \A i \in 1 .. kept : scrapingResults[i] = EntryOf(hist[n - kept + i])
      /\ insights.totalScrapes = kept

\* C40, its case: two calls past the cap, the two oldest attempts gone, and
\* the entries at the ends of the log different from those that left.
C40_Witness ==
  /\ Len(hist) = ScrapeLogCap + 2
  /\ Len(scrapingResults) = ScrapeLogCap
  /\ scrapingResults[1] # EntryOf(hist[1])
  /\ scrapingResults[ScrapeLogCap] # EntryOf(hist[ScrapeLogCap])


====
